---- MODULE Spec2Model ----
(***************************************************************************)
(* Model of the dataset description core of data-fusion:                   *)
(*   app/description_generator.py  DescriptionGenerator.generate, its      *)
(*   sampler (_prepare_data_sample and the type-inference helpers), the    *)
(*   response extraction and the retry loop around the generation call;    *)
(*   app/processors/factory.py     the reader registry.                    *)
(*                                                                         *)
(* Times are kept in milliseconds, so that int(k) / 1000 seconds is the    *)
(* integer k and retry_delay * 2 ** attempt seconds is that number * 1000. *)
(***************************************************************************)
EXTENDS Integers, Sequences, FiniteSets, TLC

VARIABLES
    file,         \* the dataset file generate() is invoked on
    pc,           \* position of the invocation inside generate()
    processor,    \* reader class selected by get_processor, "none" before
    data_sample,  \* sample payload built by _prepare_data_sample
    data_types,   \* TypeMap built by _prepare_data_sample
    attempt,      \* loop variable of the retry loop
    calls,        \* number of llm_client.generate calls issued so far
    successes,    \* number of calls that returned a response
    nsleeps,      \* number of time.sleep calls made so far
    wait_time,    \* argument of the latest time.sleep, in ms (0 before)
    curErr,       \* exception of the failed call being handled
    response,     \* raw response text returned by the service
    llm_response, \* structure recovered by _extract_json_from_response
    result,       \* profile returned to the caller
    raised,       \* exception that left generate()
    registry,     \* ProcessorFactory._processors
    op            \* direct calls of the library made outside generate()

vars == <<file, pc, processor, data_sample, data_types, attempt, calls,
          successes, nsleeps, wait_time, curErr, response, llm_response,
          result, raised, registry, op>>

\* the variables of one generate() invocation
genVars == <<pc, processor, data_sample, data_types, attempt, calls,
             successes, nsleeps, wait_time, curErr, response, llm_response,
             result, raised>>

(***************************************************************************)
(* Bounds of the model.                                                    *)
(***************************************************************************)
\* longest columns array the modelled service returns
MaxRespCols == 2
\* largest number of data rows / records / lines of a modelled file
MaxUnits == 7

(***************************************************************************)
(* Small helpers.                                                          *)
(***************************************************************************)
Max(a, b) == IF a >= b THEN a ELSE b

Min(a, b) == IF a <= b THEN a ELSE b

Range(s) == {s[i] : i \in DOMAIN s}

\* an empty dict
EmptyMap == [k \in {} |-> "null"]

\* dict.get(key, default)
DictGet(d, k, default) == IF k \in DOMAIN d THEN d[k] ELSE default

(***************************************************************************)
(* Exception messages of the generation service.  str(e) is modelled as a  *)
(* sequence of blank-separated tokens: a word (s, with n = -1) or a run of *)
(* decimal digits n directly followed by the letters u.  Words hold no     *)
(* digits.                                                                 *)
(***************************************************************************)
W(s) == [s |-> s, n |-> -1, u |-> ""]

N(n, u) == [s |-> "", n |-> n, u |-> u]

ErrRefused == <<W("Connection refused")>>

Err429 == <<W("Error code:"), N(429, "")>>

ErrTooMany == <<W("Too Many Requests")>>

Err413 == <<W("Error code:"), N(413, ""), W("Request too large")>>

ErrHint1500 == <<W("rate_limit_exceeded"), W("Please try again in"), N(1500, "ms")>>

ErrHint500 == <<W("RATE_LIMIT"), W("TRY AGAIN IN"), N(500, "MS")>>

ErrTimeoutHint == <<W("timeout"), W("Please try again in"), N(1500, "ms")>>

ErrDigits == <<W("invalid request"), W("Please try again in"), N(4290, "ms")>>

ErrHintSeconds == <<N(429, ""), W("Please try again in"), N(2, "s")>>

ErrorMessages ==
    {ErrRefused, Err429, ErrTooMany, Err413, ErrHint1500, ErrHint500,
     ErrTimeoutHint, ErrDigits, ErrHintSeconds}

\* str.lower() on the words and unit letters of the messages above
Lower(s) ==
    CASE s = "RATE_LIMIT" -> "rate_limit"
      [] s = "Too Many Requests" -> "too many requests"
      [] s = "Request too large" -> "request too large"
      [] s = "Please try again in" -> "please try again in"
      [] s = "TRY AGAIN IN" -> "try again in"
      [] s = "Connection refused" -> "connection refused"
      [] s = "Error code:" -> "error code:"
      [] s = "MS" -> "ms"
      [] OTHER -> s

\* `marker in s` for the words above (exact, case-sensitive substring test)
HasSubstring(s, marker) ==
    CASE marker = "rate_limit" -> s \in {"rate_limit", "rate_limit_exceeded"}
      [] marker = "too many requests" -> s = "too many requests"
      [] marker = "request too large" -> s = "request too large"
      [] marker = "try again in" -> s \in {"try again in", "please try again in"}
      [] OTHER -> s = marker

\* the three digits m occur consecutively in the decimal digits of n
RECURSIVE DigitsContain(_, _)
DigitsContain(n, m) ==
    IF n < 100 THEN FALSE
    ELSE (n % 1000 = m) \/ DigitsContain(n \div 10, m)

\* '429' in error_str, '413' in error_str
CodeIn(m, error_str) ==
    \E i \in DOMAIN error_str : DigitsContain(error_str[i].n, m)

\* marker in error_str.lower()
MarkerInLower(marker, error_str) ==
    \E i \in DOMAIN error_str : HasSubstring(Lower(error_str[i].s), marker)

is_rate_limit(error_str) ==
    \/ CodeIn(429, error_str)
    \/ CodeIn(413, error_str)
    \/ MarkerInLower("rate_limit", error_str)
    \/ MarkerInLower("too many requests", error_str)
    \/ MarkerInLower("request too large", error_str)

\* positions where r'try again in (\d+)ms' with re.IGNORECASE matches:
\* the phrase, one blank, digits, and "ms" right after the digits
WaitMatchAt(error_str) ==
    {i \in DOMAIN error_str :
        /\ i + 1 \in DOMAIN error_str
        /\ HasSubstring(Lower(error_str[i].s), "try again in")
        /\ error_str[i + 1].n >= 0
        /\ Lower(error_str[i + 1].u) = "ms"}

\* re.search returns the leftmost match; int(wait_match.group(1)), -1 if None
wait_match(error_str) ==
    LET at == WaitMatchAt(error_str)
    IN  IF at = {} THEN -1
        ELSE error_str[(CHOOSE i \in at : \A j \in at : i <= j) + 1].n

\* variant: one attempt more
max_retries_plus_one == 3 + 1

max_retries == 3

retry_delay == 2

\* variant: the delay does not grow with the attempt
WaitTime_constant(error_str, a) ==
    LET k == wait_match(error_str)
    IN  IF k >= 0 THEN Max(k, 1000)
        ELSE retry_delay * 1000

\* variant: the server hint is used without the one-second floor
WaitTime_no_floor(error_str, a) ==
    LET k == wait_match(error_str)
    IN  IF k >= 0 THEN k
        ELSE retry_delay * (2 ^ a) * 1000

\* wait_time of lines 460-466, in milliseconds
WaitTime(error_str, a) ==
    LET k == wait_match(error_str)
    IN  IF k >= 0 THEN Max(k, 1000)
        ELSE retry_delay * (2 ^ a) * 1000

\* variant: every error is retried
ShouldRetry_any_error(error_str, a) == a < max_retries - 1

\* variant: the last attempt is retried too
ShouldRetry_off_by_one(error_str, a) == is_rate_limit(error_str) /\ a < max_retries

\* variant: a rate-limited call is retried whatever the attempt index
ShouldRetry_every_attempt(error_str, a) == is_rate_limit(error_str)

\* the condition of line 458
ShouldRetry(error_str, a) == is_rate_limit(error_str) /\ a < max_retries - 1

\* range(max_retries): the loop body runs for attempt a
InRange(a) == a < max_retries

(***************************************************************************)
(* Dataset files.  A file is a record:                                     *)
(*   exists  the path exists                                               *)
(*   stem, suffix   Path.stem and Path.suffix of the path                  *)
(*   ok      the format's native parser accepts the content                *)
(*   header  column names of a table (first sheet of a spreadsheet)        *)
(*   rows    table rows, each a function column name -> cell kind          *)
(*   sheets  number of sheets of a spreadsheet                             *)
(*   lines   lines of a line-delimited file: a record, or a blank line     *)
(*   events  the (prefix, event, value) triples ijson.parse yields         *)
(*   nlines  number of raw text lines of the file                          *)
(* A Python value is represented by the name of its type.                  *)
(***************************************************************************)
NoFile ==
    [exists |-> TRUE, stem |-> "data", suffix |-> "", ok |-> TRUE,
     header |-> <<>>, rows |-> <<>>, sheets |-> 0, lines |-> <<>>,
     events |-> <<>>, nlines |-> 0]

Table(suffix, header, rows) ==
    [NoFile EXCEPT !.suffix = suffix, !.header = header, !.rows = rows,
                   !.sheets = IF suffix = ".csv" THEN 0 ELSE 1,
                   !.nlines = Len(rows) + 1]

Rec(r) == [blank |-> FALSE, rec |-> r]

BlankLine == [blank |-> TRUE, rec |-> EmptyMap]

Jsonl(lines) == [NoFile EXCEPT !.suffix = ".jsonl", !.lines = lines,
                               !.nlines = Len(lines)]

Ev(prefix, event, value) == [prefix |-> prefix, event |-> event, value |-> value]

Json(events) == [NoFile EXCEPT !.suffix = ".json", !.events = events,
                               !.nlines = 1]

\* str.lower() on the suffixes, extensions and type names of the model
LowerSuffix(x) ==
    CASE x = ".CSV" -> ".csv"
      [] x = ".Csv" -> ".csv"
      [] x = "CSV" -> "csv"
      [] x = ".Json" -> ".json"
      [] x = ".TXT" -> ".txt"
      [] x = ".Parquet" -> ".parquet"
      [] OTHER -> x

\* n copies of x
Repeat(x, n) == [i \in 1..n |-> x]

\* 7-row table: id is integer throughout, amount is integer in the first
\* five rows and floating later
CsvSeven ==
    Table(".csv", <<"id", "amount">>,
          Repeat([id |-> "int", amount |-> "int"], 5)
          \o Repeat([id |-> "int", amount |-> "float"], MaxUnits - 5))

CsvMixed ==
    Table(".csv", <<"age", "zip", "ok">>,
          <<[age |-> "int", zip |-> "text", ok |-> "bool"],
            [age |-> "empty", zip |-> "int", ok |-> "bool"]>>)

CsvHeaderOnly == Table(".csv", <<"age">>, <<>>)

CsvUpper == [Table(".csv", <<"age">>, <<[age |-> "float"]>>) EXCEPT !.suffix = ".CSV"]

CsvMalformed == [CsvMixed EXCEPT !.ok = FALSE]

CsvMissing == [CsvMixed EXCEPT !.exists = FALSE]

XlsxDates ==
    Table(".xlsx", <<"when", "age">>,
          <<[when |-> "date", age |-> "int"], [when |-> "date", age |-> "int"]>>)

XlsTwoSheets ==
    [Table(".xls", <<"age">>, <<[age |-> "text"]>>) EXCEPT !.sheets = 2]

XlsxMalformed == [XlsxDates EXCEPT !.ok = FALSE]

\* a column of elapsed times ([h]:mm:ss cells)
XlsxDurations ==
    Table(".xlsx", <<"age", "took">>,
          <<[age |-> "int", took |-> "duration"]>>)

\* status is "active" twice and 42 once
JsonlStatus ==
    Jsonl(<<Rec([status |-> "str"]), Rec([status |-> "str"]),
            Rec([status |-> "int"])>>)

\* one str and one int for the same field, with a blank line between
JsonlTie ==
    Jsonl(<<Rec([age |-> "int"]), BlankLine, Rec([age |-> "str", zip |-> "NoneType"])>>)

JsonlKinds ==
    Jsonl(<<Rec([age |-> "float", tags |-> "list", geo |-> "dict", ok |-> "bool"])>>)

JsonlEmpty == Jsonl(<<>>)

JsonlMalformed == [JsonlStatus EXCEPT !.ok = FALSE]

\* {"price": 1.5, "age": 2, "tag": null}
JsonMap ==
    Json(<<Ev("", "start_map", "NoneType"),
           Ev("", "map_key", "str"), Ev("price", "number", "Decimal"),
           Ev("", "map_key", "str"), Ev("age", "number", "int"),
           Ev("", "map_key", "str"), Ev("tag", "null", "NoneType"),
           Ev("", "end_map", "NoneType")>>)

\* {"age": 2, "zip": "x", "tag": null}
JsonObject ==
    Json(<<Ev("", "start_map", "NoneType"),
           Ev("", "map_key", "str"), Ev("age", "number", "int"),
           Ev("", "map_key", "str"), Ev("zip", "string", "str"),
           Ev("", "map_key", "str"), Ev("tag", "null", "NoneType"),
           Ev("", "end_map", "NoneType")>>)

\* [{"age": "x"}, {"age": true}]
JsonList ==
    Json(<<Ev("", "start_array", "NoneType"),
           Ev("item", "start_map", "NoneType"),
           Ev("item", "map_key", "str"), Ev("item.age", "string", "str"),
           Ev("item", "end_map", "NoneType"),
           Ev("item", "start_map", "NoneType"),
           Ev("item", "map_key", "str"), Ev("item.age", "boolean", "bool"),
           Ev("item", "end_map", "NoneType"),
           Ev("", "end_array", "NoneType")>>)

\* the events of one element {"n": <value>} of a list root
ItemEvents(field, event, value) ==
    <<Ev("item", "start_map", "NoneType"), Ev("item", "map_key", "str"),
      Ev(field, event, value), Ev("item", "end_map", "NoneType")>>

\* [{"n": 1}, {"n": 1}, {"n": 1}, {"n": 1}, {"n": "x"}, ... , {"late": true}]:
\* four numbers, then six strings, then one element with another field
JsonLong ==
    Json(<<Ev("", "start_array", "NoneType")>>
         \o ItemEvents("item.n", "number", "int") \o ItemEvents("item.n", "number", "int")
         \o ItemEvents("item.n", "number", "int") \o ItemEvents("item.n", "number", "int")
         \o ItemEvents("item.n", "string", "str") \o ItemEvents("item.n", "string", "str")
         \o ItemEvents("item.n", "string", "str") \o ItemEvents("item.n", "string", "str")
         \o ItemEvents("item.n", "string", "str") \o ItemEvents("item.n", "string", "str")
         \o ItemEvents("item.late", "boolean", "bool")
         \o <<Ev("", "end_array", "NoneType")>>)

\* 5
JsonScalar == Json(<<Ev("", "number", "int")>>)

JsonUpper == [JsonScalar EXCEPT !.suffix = ".Json"]

JsonMalformed == [JsonMap EXCEPT !.ok = FALSE]

XmlGood == [NoFile EXCEPT !.suffix = ".xml", !.nlines = MaxUnits]

XmlMalformed == [NoFile EXCEPT !.suffix = ".xml", !.nlines = 3, !.ok = FALSE]

TxtFile == [NoFile EXCEPT !.suffix = ".txt", !.nlines = MaxUnits]

TxtUpper == [NoFile EXCEPT !.suffix = ".TXT", !.nlines = 2]

TextFile == [NoFile EXCEPT !.suffix = ".text", !.nlines = 1]

PdfFile == [NoFile EXCEPT !.suffix = ".pdf"]

NoSuffixFile == NoFile

Files ==
    {CsvSeven, CsvMixed, CsvHeaderOnly, CsvUpper, CsvMalformed, CsvMissing,
     XlsxDates, XlsTwoSheets, XlsxMalformed, XlsxDurations,
     JsonlStatus, JsonlTie, JsonlKinds, JsonlEmpty, JsonlMalformed,
     JsonMap, JsonObject, JsonList, JsonLong, JsonScalar, JsonUpper, JsonMalformed,
     XmlGood, XmlMalformed, TxtFile, TxtUpper, TextFile, PdfFile, NoSuffixFile}

(***************************************************************************)
(* Reader registry and readers.                                            *)
(***************************************************************************)
\* ProcessorFactory._processors as the class statement leaves it
Processors ==
    [e \in {".csv", ".json", ".jsonl", ".xml", ".xlsx", ".xls", ".txt", ".text"} |->
        CASE e = ".csv" -> "CSVProcessor"
          [] e = ".json" -> "JSONProcessor"
          [] e = ".jsonl" -> "JSONLProcessor"
          [] e = ".xml" -> "XMLProcessor"
          [] e \in {".xlsx", ".xls"} -> "XLSXProcessor"
          [] OTHER -> "TXTProcessor"]

\* a reader class defined outside the package
CustomClass == "ParquetProcessor"

\* a class that does not inherit from BaseProcessor
PlainClass == "PlainClass"

\* issubclass(processor_class, BaseProcessor)
IsProcessorClass(cls) ==
    cls \in {Processors[e] : e \in DOMAIN Processors} \cup {CustomClass}

\* the modelled strings that do not start with '.'
Dotless == {"", "csv", "CSV", "parquet", "data.csv"}

\* extension.startswith('.')
StartsWithDot(x) == x \notin Dotless

\* f'.{extension}' unless the string starts with '.'
WithDot(x) ==
    IF StartsWithDot(x) THEN x
    ELSE CASE x = "csv" -> ".csv"
           [] x = "CSV" -> ".CSV"
           [] x = "parquet" -> ".parquet"
           [] x = "data.csv" -> ".data.csv"
           [] OTHER -> "."

NoType == ""

\* variant: the path's suffix wins over an explicit file_type
create_suffix_first(reg, f, file_type) ==
    LET extension == IF f.suffix # "" THEN LowerSuffix(f.suffix)
                     ELSE WithDot(LowerSuffix(file_type))
    IN  IF extension \notin DOMAIN reg
        THEN [raises |-> "ValueError", class |-> "none", selected |-> "none",
              supported |-> DOMAIN reg]
        ELSE IF ~f.exists
        THEN [raises |-> "FileNotFoundError", class |-> "none",
              selected |-> reg[extension], supported |-> {}]
        ELSE [raises |-> "none", class |-> reg[extension],
              selected |-> reg[extension], supported |-> {}]

\* variant: the error lists the extensions of the class statement
create_builtin_list(reg, f, file_type) ==
    LET extension == IF file_type # NoType THEN WithDot(LowerSuffix(file_type))
                     ELSE LowerSuffix(f.suffix)
    IN  IF extension \notin DOMAIN reg
        THEN [raises |-> "ValueError", class |-> "none", selected |-> "none",
              supported |-> DOMAIN Processors]
        ELSE IF ~f.exists
        THEN [raises |-> "FileNotFoundError", class |-> "none",
              selected |-> reg[extension], supported |-> {}]
        ELSE [raises |-> "none", class |-> reg[extension],
              selected |-> reg[extension], supported |-> {}]

\* ProcessorFactory.create: the class of the instance returned (class), or
\* the exception raised; `selected` is the class whose constructor ran and
\* `supported` the extensions the ValueError message lists
create(reg, f, file_type) ==
    LET extension == IF file_type # NoType THEN WithDot(LowerSuffix(file_type))
                     ELSE LowerSuffix(f.suffix)
    IN  IF extension \notin DOMAIN reg
        THEN [raises |-> "ValueError", class |-> "none", selected |-> "none",
              supported |-> DOMAIN reg]
        ELSE IF ~f.exists
        THEN [raises |-> "FileNotFoundError", class |-> "none",
              selected |-> reg[extension], supported |-> {}]
        ELSE [raises |-> "none", class |-> reg[extension],
              selected |-> reg[extension], supported |-> {}]

\* variant: the extension is stored as given, without lower-casing
register_as_given(reg, ext, cls) ==
    LET extension == WithDot(ext)
    IN  IF ~IsProcessorClass(cls)
        THEN [raises |-> "TypeError", registry |-> reg]
        ELSE [raises |-> "none",
              registry |-> [k \in DOMAIN reg \cup {extension} |->
                              IF k = extension THEN cls ELSE reg[k]]]

\* variant: the class is stored without the issubclass check
register_unchecked(reg, ext, cls) ==
    LET extension == LowerSuffix(WithDot(ext))
    IN  [raises |-> "none",
         registry |-> [k \in DOMAIN reg \cup {extension} |->
                         IF k = extension THEN cls ELSE reg[k]]]

\* ProcessorFactory.register: the exception raised and the registry after
register(reg, ext, cls) ==
    LET extension == LowerSuffix(WithDot(ext))
    IN  IF ~IsProcessorClass(cls)
        THEN [raises |-> "TypeError", registry |-> reg]
        ELSE [raises |-> "none",
              registry |-> [k \in DOMAIN reg \cup {extension} |->
                              IF k = extension THEN cls ELSE reg[k]]]

\* ProcessorFactory.is_supported on a Path or a string with a separator
\* (path TRUE, s its suffix) or on any other string s
is_supported(reg, path, s) ==
    LET extension == IF path THEN LowerSuffix(s) ELSE WithDot(LowerSuffix(s))
    IN  extension \in DOMAIN reg

\* get_processor(file_path)
get_processor(f) == create(registry, f, NoType)

\* storage type pandas gives a column holding the cell kinds `cells`
column_dtype(cells, spreadsheet) ==
    IF cells = {} THEN "object"
    ELSE IF cells = {"int"} THEN "int64"
    ELSE IF cells \subseteq {"int", "float", "empty"} THEN "float64"
    ELSE IF cells = {"bool"} THEN "bool"
    ELSE IF cells = {"date"} /\ spreadsheet THEN "datetime64[ns]"
    ELSE IF cells = {"duration"} /\ spreadsheet THEN "timedelta64[ns]"
    ELSE "object"

\* the DataFrame of the given rows
DataFrame(header, rows, spreadsheet) ==
    [header |-> header, rows |-> rows,
     dtypes |-> [c \in Range(header) |->
                    column_dtype({rows[i][c] : i \in DOMAIN rows}, spreadsheet)]]

\* variant: the types are taken from the five sampled rows
ReadTable_five_rows(f) ==
    DataFrame(f.header, SubSeq(f.rows, 1, Min(5, Len(f.rows))), f.sheets > 0)

\* CSVProcessor.read, XLSXProcessor.read(sheet_name=...)
ReadTable(f) == DataFrame(f.header, f.rows, f.sheets > 0)

\* CSVProcessor.get_top_n: pd.read_csv(nrows=n)
CsvTopN(f, n) == DataFrame(f.header, SubSeq(f.rows, 1, Min(n, Len(f.rows))), FALSE)

\* BaseProcessor.get_top_n on a DataFrame: read().head(n)
HeadTopN(f, n) ==
    [ReadTable(f) EXCEPT !.rows = SubSeq(f.rows, 1, Min(n, Len(f.rows)))]

\* JSONLProcessor.read
JsonlRead(f) ==
    LET kept == SelectSeq(f.lines, LAMBDA l : ~l.blank)
    IN  [i \in DOMAIN kept |-> kept[i].rec]

\* JSONLProcessor.get_top_n
JsonlTopN(f, n) ==
    LET kept == SelectSeq(SubSeq(f.lines, 1, Min(n, Len(f.lines))),
                          LAMBDA l : ~l.blank)
    IN  [i \in DOMAIN kept |-> kept[i].rec]

\* variant: null tokens are collected as well
JsonTopN_with_null(f, n) ==
    LET scalar == {"string", "number", "boolean", "null"}
        hit(p) == SelectSeq(f.events,
                            LAMBDA e : e.event \in scalar /\ e.prefix = p)
        paths == {f.events[i].prefix :
                    i \in {j \in DOMAIN f.events : f.events[j].event \in scalar}}
    IN  [p \in paths |-> [i \in 1..Min(n, Len(hit(p))) |-> hit(p)[i].value]]

\* JSONProcessor.get_top_n
JsonTopN(f, n) ==
    LET scalar == {"string", "number", "boolean"}
        hit(p) == SelectSeq(f.events,
                            LAMBDA e : e.event \in scalar /\ e.prefix = p)
        paths == {f.events[i].prefix :
                    i \in {j \in DOMAIN f.events : f.events[j].event \in scalar}}
    IN  [p \in paths |-> [i \in 1..Min(n, Len(hit(p))) |-> hit(p)[i].value]]

(***************************************************************************)
(* Sampler: type inference.                                                *)
(***************************************************************************)
\* DescriptionGenerator._infer_data_type
infer_data_type(value) ==
    CASE value = "NoneType" -> "null"
      [] value = "bool" -> "bool"
      [] value = "int" -> "int"
      [] value = "float" -> "float"
      [] value = "str" -> "str"
      [] value = "list" -> "list"
      [] value = "dict" -> "dict"
      [] OTHER -> value

\* variant: object columns are reported under the storage type's name
dtype_tag_raw_object(dtype) ==
    IF dtype \in {"int64", "int32", "uint64"} THEN "int"
    ELSE IF dtype \in {"float64", "float32"} THEN "float"
    ELSE IF dtype = "bool" THEN "bool"
    ELSE IF dtype = "datetime64[ns]" THEN "datetime"
    ELSE dtype

\* one column of DescriptionGenerator._get_data_types_from_dataframe
dtype_tag(dtype) ==
    IF dtype \in {"int64", "int32", "uint64"} THEN "int"
    ELSE IF dtype \in {"float64", "float32"} THEN "float"
    ELSE IF dtype = "bool" THEN "bool"
    ELSE IF dtype = "datetime64[ns]" THEN "datetime"
    ELSE IF dtype = "object" THEN "str"
    ELSE dtype

\* DescriptionGenerator._get_data_types_from_dataframe
get_data_types_from_dataframe(df) ==
    [col \in Range(df.header) |-> dtype_tag(df.dtypes[col])]

\* the values max(set(types), key=types.count) can return: a type with the
\* largest count; among several, the one the set happens to iterate first
MostCommon(records, idx, field) ==
    LET typeOf(i) == infer_data_type(records[i][field])
        count(t) == Cardinality({i \in idx : typeOf(i) = t})
        seen == {typeOf(i) : i \in idx}
    IN  {t \in seen : \A u \in seen : count(t) >= count(u)}

\* DescriptionGenerator._get_data_types_from_records: the possible results
get_data_types_from_records(records) ==
    LET all_fields == UNION {DOMAIN records[i] : i \in DOMAIN records}
        first == 1..Min(10, Len(records))
        nonNull(field) ==
            {i \in first : field \in DOMAIN records[i]
                           /\ records[i][field] # "NoneType"}
        choices(field) ==
            IF nonNull(field) = {} THEN {"null"}
            ELSE MostCommon(records, nonNull(field), field)
    IN  IF records = <<>> THEN {EmptyMap}
        ELSE {m \in [all_fields -> UNION {choices(fl) : fl \in all_fields}] :
                \A fl \in all_fields : m[fl] \in choices(fl)}

\* variant: the type of the last sample value of every path
JsonDataTypes_last_value(sample_data) ==
    LET filled == {p \in DOMAIN sample_data : sample_data[p] # <<>>}
    IN  [p \in filled |-> infer_data_type(sample_data[p][Len(sample_data[p])])]

\* lines 272-283: type of the first non-null sample value of every path
JsonDataTypes(sample_data) ==
    LET filled == {p \in DOMAIN sample_data : sample_data[p] # <<>>}
        nonNull(p) == {i \in DOMAIN sample_data[p] : sample_data[p][i] # "NoneType"}
        firstOf(p) == CHOOSE i \in nonNull(p) : \A j \in nonNull(p) : i <= j
    IN  [p \in filled |->
            IF nonNull(p) = {} THEN "null"
            ELSE infer_data_type(sample_data[p][firstOf(p)])]

(***************************************************************************)
(* Sampler: DescriptionGenerator._prepare_data_sample.  The result is the  *)
(* set of possible outcomes: an exception, or (data_sample, data_types).   *)
(***************************************************************************)
Unset == [kind |-> "unset", value |-> <<>>]

Sampled(kind, value, types) ==
    [raises |-> "none", data_sample |-> [kind |-> kind, value |-> value],
     data_types |-> types]

\* variant: a failure of the sampler is absorbed into an empty sample
SampleFails_swallowed(exc) ==
    [raises |-> "none", data_sample |-> [kind |-> "raw_lines", value |-> 0],
     data_types |-> EmptyMap]

SampleFails(exc) == [raises |-> exc, data_sample |-> Unset, data_types |-> EmptyMap]

prepare_data_sample(f, proc) ==
    LET file_ext == LowerSuffix(f.suffix)
    IN  IF file_ext \in {".csv", ".xlsx", ".xls"} THEN
            IF ~f.ok THEN {SampleFails("ParseError")}
            ELSE IF file_ext \in {".xlsx", ".xls"} /\ f.sheets = 0
            THEN {SampleFails("ValueError")}
            ELSE LET sample_df == IF file_ext = ".csv" THEN CsvTopN(f, 5)
                                  ELSE HeadTopN(f, 5)
                     full_df == ReadTable(f)
                 IN  {Sampled("rows", sample_df.rows,
                              get_data_types_from_dataframe(full_df))}
        ELSE IF file_ext = ".jsonl" THEN
            IF ~f.ok THEN {SampleFails("ParseError")}
            ELSE {Sampled("records", JsonlTopN(f, 5), types) :
                    types \in get_data_types_from_records(JsonlRead(f))}
        ELSE IF file_ext = ".json" THEN
            IF ~f.ok THEN {SampleFails("ParseError")}
            ELSE LET sample_data == JsonTopN(f, 5)
                 IN  \* json.dumps rejects the Decimal ijson gives a
                     \* non-integer number
                     IF \E p \in DOMAIN sample_data : "Decimal" \in Range(sample_data[p])
                     THEN {SampleFails("TypeError")}
                     ELSE {Sampled("paths", sample_data,
                                   IF DOMAIN sample_data = {} THEN EmptyMap
                                   ELSE JsonDataTypes(sample_data))}
        ELSE IF file_ext \in {".txt", ".text"} THEN
            {Sampled("lines", Min(5, f.nlines), EmptyMap)}
        ELSE
            \* unknown type: str() of what get_top_n returns; when get_top_n
            \* and read both raise and the reader has no read_lines, the
            \* first five raw lines of the file
            IF f.ok THEN {Sampled("str", 1, EmptyMap)}
            ELSE IF proc \in {"JSONLProcessor", "TXTProcessor"}
            THEN {Sampled("lines", Min(5, f.nlines), EmptyMap)}
            ELSE {Sampled("raw_lines", Min(5, f.nlines), EmptyMap)}

(***************************************************************************)
(* Response texts.  A text is a sequence of tokens [t, v]:                 *)
(*   "{" "}" "[" "]" ","   the JSON punctuation characters                 *)
(*   "key"     a member name with its colon, "v":                          *)
(*   "str"     a string literal holding none of { } [ ] and no fence       *)
(*   "qopen", "fence", "qclose"  a string literal with ``` inside it       *)
(*   "num"     a number literal                                            *)
(*   "fence"   three backticks                                             *)
(*   "tag"     the letters json right after a fence                        *)
(*   "ws"      white space                                                 *)
(*   "word"    prose holding none of { } [ ] and no fence                  *)
(* A parsed JSON value is kept as its text without white space.            *)
(***************************************************************************)
Tok(t, v) == [t |-> t, v |-> v]

LBrace == Tok("{", "")

RBrace == Tok("}", "")

LBracket == Tok("[", "")

RBracket == Tok("]", "")

Comma == Tok(",", "")

Key(k) == Tok("key", k)

Str(s) == Tok("str", s)

QOpen(s) == Tok("qopen", s)

QClose == Tok("qclose", "")

Num == Tok("num", "1")

Fence == Tok("fence", "")

JsonTag == Tok("tag", "json")

Ws == Tok("ws", "")

Word(w) == Tok("word", w)

\* the token sequences of `parts`, separated by commas
RECURSIVE Join(_)
Join(parts) ==
    IF parts = <<>> THEN <<>>
    ELSE IF Len(parts) = 1 THEN parts[1]
    ELSE parts[1] \o <<Comma>> \o Join(Tail(parts))

\* str.strip()
RECURSIVE Strip(_)
Strip(s) ==
    IF s = <<>> THEN s
    ELSE IF s[1].t = "ws" THEN Strip(Tail(s))
    ELSE IF s[Len(s)].t = "ws" THEN Strip(SubSeq(s, 1, Len(s) - 1))
    ELSE s

\* str.find / str.rfind of a punctuation character: its position, 0 if none
Find(s, ch) ==
    LET at == {i \in DOMAIN s : s[i].t = ch}
    IN  IF at = {} THEN 0 ELSE CHOOSE i \in at : \A j \in at : i <= j

RFind(s, ch) ==
    LET at == {i \in DOMAIN s : s[i].t = ch}
    IN  IF at = {} THEN 0 ELSE CHOOSE i \in at : \A j \in at : i >= j

\* s[a:b+1] for positions a, b found by Find and RFind
Slice(s, a, b) == SubSeq(s, a, b)

(***************************************************************************)
(* json.loads.  EndOfValue(s, i) is the position after the JSON value that *)
(* starts at position i of the white-space-free text s, 0 if none does.    *)
(***************************************************************************)
RECURSIVE EndOfValue(_, _), EndOfMembers(_, _), EndOfElements(_, _)
EndOfValue(s, i) ==
    IF i > Len(s) THEN 0
    ELSE IF s[i].t \in {"str", "num"} THEN i + 1
    ELSE IF s[i].t = "qopen"
    THEN IF i + 2 <= Len(s) /\ s[i + 1].t = "fence" /\ s[i + 2].t = "qclose"
         THEN i + 3 ELSE 0
    ELSE IF s[i].t = "{"
    THEN IF i + 1 <= Len(s) /\ s[i + 1].t = "}" THEN i + 2
         ELSE EndOfMembers(s, i + 1)
    ELSE IF s[i].t = "["
    THEN IF i + 1 <= Len(s) /\ s[i + 1].t = "]" THEN i + 2
         ELSE EndOfElements(s, i + 1)
    ELSE 0

\* members from position i up to and including the closing brace
EndOfMembers(s, i) ==
    IF i > Len(s) \/ s[i].t # "key" THEN 0
    ELSE LET j == EndOfValue(s, i + 1)
         IN  IF j = 0 \/ j > Len(s) THEN 0
             ELSE IF s[j].t = "}" THEN j + 1
             ELSE IF s[j].t = "," THEN EndOfMembers(s, j + 1)
             ELSE 0

\* elements from position i up to and including the closing bracket
EndOfElements(s, i) ==
    LET j == EndOfValue(s, i)
    IN  IF j = 0 \/ j > Len(s) THEN 0
        ELSE IF s[j].t = "]" THEN j + 1
        ELSE IF s[j].t = "," THEN EndOfElements(s, j + 1)
        ELSE 0

\* json.loads(text): ok is FALSE for JSONDecodeError
Loads(text) ==
    LET s == SelectSeq(text, LAMBDA k : k.t # "ws")
        ok == s # <<>> /\ EndOfValue(s, 1) = Len(s) + 1
    IN  [ok |-> ok, value |-> IF ok THEN s ELSE <<>>]

\* isinstance(parsed, dict), isinstance(parsed, list)
IsDict(value) == value # <<>> /\ value[1].t = "{"

IsList(value) == value # <<>> /\ value[1].t = "["

\* the members of the object `value`: [key, from, to] with the value's span
RECURSIVE MembersFrom(_, _)
MembersFrom(s, i) ==
    IF s[i].t # "key" THEN <<>>
    ELSE LET j == EndOfValue(s, i + 1)
         IN  <<[key |-> s[i].v, from |-> i + 1, to |-> j - 1]>>
             \o (IF s[j].t = "," THEN MembersFrom(s, j + 1) ELSE <<>>)

Members(value) == IF IsDict(value) THEN MembersFrom(value, 2) ELSE <<>>

\* the elements of the array `value`: [from, to]
RECURSIVE ElementsFrom(_, _)
ElementsFrom(s, i) ==
    IF s[i].t = "]" THEN <<>>
    ELSE LET j == EndOfValue(s, i)
         IN  <<[from |-> i, to |-> j - 1]>>
             \o (IF s[j].t = "," THEN ElementsFrom(s, j + 1) ELSE <<>>)

Elements(value) == IF IsList(value) THEN ElementsFrom(value, 2) ELSE <<>>

\* key in parsed
HasKey(value, k) ==
    LET ms == Members(value)
    IN  \E i \in DOMAIN ms : ms[i].key = k

\* parsed[key]: the value of the last member of that name
GetKey(value, k) ==
    LET ms == Members(value)
        at == {i \in DOMAIN ms : ms[i].key = k}
        m == ms[CHOOSE i \in at : \A j \in at : i >= j]
    IN  SubSeq(value, m.from, m.to)

\* the Python str a string literal denotes
StrOf(value) ==
    IF value = <<>> THEN ""
    ELSE IF value[1].t \in {"str", "qopen"} THEN value[1].v
    ELSE ""

(***************************************************************************)
(* Generation responses.  The service writes a JSON value (an object, an   *)
(* array, or none) and wraps it in nothing, in a fenced code block or in   *)
(* prose.  A column entry records whether it has a `name` and the          *)
(* `data_type` the service wrote ("" when it wrote none).                  *)
(***************************************************************************)
RespNames == {"age", "ghost"}

ColEntries ==
    {[has_name |-> TRUE, name |-> nm, data_type |-> d] :
        nm \in RespNames, d \in {"", "string"}}
    \cup {[has_name |-> FALSE, name |-> "", data_type |-> ""]}

ColSeqs(maxLen) == UNION {[1..k -> ColEntries] : k \in 0..maxLen}

DefaultFile ==
    [name |-> "Dataset", description |-> "A dataset containing structured records."]

RespFile == [name |-> "Matters", description |-> "Legal matters of a firm."]

\* the JSON text of one column entry
EntryText(c) ==
    <<LBrace>>
    \o Join((IF c.has_name THEN <<<<Key("name"), Str(c.name)>>>> ELSE <<>>)
            \o (IF c.data_type # ""
                THEN <<<<Key("data_type"), Str(c.data_type)>>>> ELSE <<>>))
    \o <<RBrace>>

\* the JSON text of an array of column entries
ArrayText(columns) ==
    <<LBracket>> \o Join([i \in DOMAIN columns |-> EntryText(columns[i])])
    \o <<RBracket>>

\* the JSON text of a file descriptor whose description is the literal desc
FileText(desc) ==
    <<LBrace, Key("name"), Str(RespFile.name), Comma, Key("description")>>
    \o desc \o <<RBrace>>

PlainDesc == <<Str(RespFile.description)>>

\* a description that quotes a code fence
FenceDesc == <<QOpen(RespFile.description), Fence, QClose>>

\* the JSON text of an object with the given members
ObjectText(has_file, has_columns, columns, desc) ==
    <<LBrace>>
    \o (IF ~has_file /\ ~has_columns THEN <<Key("note"), Str("n/a")>>
        ELSE Join((IF has_file THEN <<<<Key("file")>> \o FileText(desc)>> ELSE <<>>)
                  \o (IF has_columns
                      THEN <<<<Key("columns")>> \o ArrayText(columns)>> ELSE <<>>)))
    \o <<RBrace>>

Prose == <<Word("I cannot describe this file.")>>

\* the text of a response
ResponseText(wrap, json, has_file, has_columns, columns) ==
    LET body == IF json = "object"
                THEN ObjectText(has_file, has_columns, columns, PlainDesc)
                ELSE IF json = "array" THEN ArrayText(columns)
                ELSE Prose
    IN  IF wrap = "raw" THEN body
        ELSE IF wrap = "fenced"
        THEN <<Fence, JsonTag, Ws>> \o body \o <<Ws, Fence>>
        ELSE IF wrap = "prose"
        THEN <<Word("Here is the description:"), Ws>> \o body
             \o <<Ws, Word("Let me know if you need more.")>>
        ELSE <<>>

Resp(wrap, json, has_file, has_columns, columns) ==
    [wrap |-> wrap, json |-> json, has_file |-> has_file,
     has_columns |-> has_columns, columns |-> columns,
     text |-> ResponseText(wrap, json, has_file, has_columns, columns)]

Responses ==
    {Resp("raw", "object", hf, TRUE, c) : hf \in BOOLEAN, c \in ColSeqs(MaxRespCols)}
    \cup {Resp("raw", "array", FALSE, FALSE, c) : c \in ColSeqs(MaxRespCols)}
    \cup {Resp(w, j, j = "object", j = "object", c) :
            w \in {"fenced", "prose"}, j \in {"object", "array"}, c \in ColSeqs(1)}
    \cup {Resp(w, "object", hf, FALSE, <<>>) :
            w \in {"raw", "fenced"}, hf \in BOOLEAN}
    \cup {Resp(w, "none", FALSE, FALSE, <<>>) : w \in {"raw", "fenced", "prose"}}

NoResponse == Resp("unset", "none", FALSE, FALSE, <<>>)

(***************************************************************************)
(* DescriptionGenerator._extract_json_from_response                        *)
(***************************************************************************)
NoValue == <<>>

\* a return of the value found by strategy `by`
Extracted(v, by) == [raises |-> "none", value |-> v, by |-> by]

\* variant: an empty structure is returned when nothing was found
NotExtracted_empty == [raises |-> "none", value |-> <<LBrace, RBrace>>, by |-> 0]

\* line 392
NotExtracted == [raises |-> "ValueError", value |-> NoValue, by |-> 0]

\* 'file' in parsed or 'columns' in parsed
Keyed(parsed) == HasKey(parsed, "file") \/ HasKey(parsed, "columns")

\* variant: the list itself is returned
FromList_bare(parsed) == parsed

\* {'file': {'name': 'Dataset', 'description': ...}, 'columns': parsed}
FromList(parsed) ==
    <<LBrace, Key("file"), LBrace, Key("name"), Str(DefaultFile.name), Comma,
      Key("description"), Str(DefaultFile.description), RBrace, Comma,
      Key("columns")>> \o parsed \o <<RBrace>>

\* variant: the block runs from the first fence to the last one
code_block_match_greedy(text) ==
    LET fences == {i \in DOMAIN text : text[i].t = "fence"}
        open == CHOOSE i \in fences : \A j \in fences : i <= j
        close == CHOOSE i \in fences : \A j \in fences : i >= j
        tagged == open + 1 <= Len(text) /\ text[open + 1].t = "tag"
        from == IF tagged THEN open + 2 ELSE open + 1
    IN  IF Cardinality(fences) < 2 THEN [found |-> FALSE, group |-> <<>>]
        ELSE [found |-> TRUE, group |-> SubSeq(text, from, close - 1)]

\* re.search(r'```(?:json)?\s*([\s\S]*?)```', response): the leftmost fence
\* that has a fence after it opens the block, the next fence closes it
code_block_match(text) ==
    LET fences == {i \in DOMAIN text : text[i].t = "fence"}
        open == CHOOSE i \in fences : \A j \in fences : i <= j
        later == {i \in fences : i > open}
        close == CHOOSE i \in later : \A j \in later : i <= j
        tagged == open + 1 <= Len(text) /\ text[open + 1].t = "tag"
        from == IF tagged THEN open + 2 ELSE open + 1
    IN  IF Cardinality(fences) < 2 THEN [found |-> FALSE, group |-> <<>>]
        ELSE [found |-> TRUE, group |-> SubSeq(text, from, close - 1)]

\* variant: the object slice is tried only when no bracket occurs at all
ObjectFirst_no_bracket(first_obj, last_obj, first_arr) ==
    first_obj # 0 /\ last_obj # 0 /\ first_arr = 0

\* line 373: first_obj != -1 and last_obj != -1 and
\* (first_arr == -1 or first_obj < first_arr)
ObjectFirst(first_obj, last_obj, first_arr) ==
    first_obj # 0 /\ last_obj # 0 /\ (first_arr = 0 \/ first_obj < first_arr)

\* lines 365-390: the two slices of the text the fallback works on
extract_fallback(text) ==
    LET first_obj == Find(text, "{")
        last_obj == RFind(text, "}")
        first_arr == Find(text, "[")
        last_arr == RFind(text, "]")
        obj == Loads(Slice(text, first_obj, last_obj))
        arr == Loads(Slice(text, first_arr, last_arr))
    IN  IF ObjectFirst(first_obj, last_obj, first_arr)
           /\ obj.ok /\ IsDict(obj.value) /\ Keyed(obj.value)
        THEN Extracted(obj.value, 3)
        ELSE IF first_arr # 0 /\ last_arr # 0 /\ arr.ok /\ IsList(arr.value)
        THEN Extracted(FromList(arr.value), 4)
        ELSE NotExtracted

\* lines 336-392
extract_json_from_response(text) ==
    LET whole == Loads(text)
        code_block == code_block_match(text)
        code_content == Strip(code_block.group)
        inner == Loads(code_content)
    IN  IF whole.ok /\ IsDict(whole.value) /\ Keyed(whole.value)
        THEN Extracted(whole.value, 1)
        ELSE IF whole.ok /\ IsList(whole.value)
        THEN Extracted(FromList(whole.value), 1)
        ELSE IF code_block.found /\ inner.ok /\ IsDict(inner.value)
                /\ Keyed(inner.value)
        THEN Extracted(inner.value, 2)
        ELSE IF code_block.found /\ inner.ok /\ IsList(inner.value)
        THEN Extracted(FromList(inner.value), 2)
        ELSE IF code_block.found /\ ~inner.ok
        THEN extract_fallback(code_content)
        ELSE extract_fallback(text)

(***************************************************************************)
(* The dict generate reads the extracted value as (lines 477-483).         *)
(***************************************************************************)
NoStructure ==
    [has_file |-> FALSE, file |-> EmptyMap, has_columns |-> FALSE, columns |-> <<>>]

\* parsed.get(key): the string a member holds, "" when there is no such member
GetStr(value, k) == IF HasKey(value, k) THEN StrOf(GetKey(value, k)) ELSE ""

\* one element of llm_response['columns'], as col_desc.get reads it
AsEntry(value) ==
    [has_name |-> HasKey(value, "name"),
     name |-> GetStr(value, "name"),
     data_type |-> GetStr(value, "data_type")]

\* llm_response.get('file', {}), llm_response.get('columns', [])
AsDict(value) ==
    LET has_file == HasKey(value, "file")
        has_columns == HasKey(value, "columns")
        file_info == IF has_file THEN GetKey(value, "file") ELSE <<>>
        names == {k \in {"name", "description"} : HasKey(file_info, k)}
        cols == IF has_columns THEN GetKey(value, "columns") ELSE <<>>
        elems == Elements(cols)
    IN  [has_file |-> has_file,
         file |-> [k \in names |-> GetStr(file_info, k)],
         has_columns |-> has_columns,
         columns |-> [i \in DOMAIN elems |->
                        AsEntry(SubSeq(cols, elems[i].from, elems[i].to))]]

(***************************************************************************)
(* Profile assembly (lines 477-505).                                       *)
(***************************************************************************)
\* col_desc.get('name', '')
col_name(col_desc) == IF col_desc.has_name THEN col_desc.name ELSE ""

\* variant: a data_type the response carries is kept
stamp_keep_llm(col_desc, types) ==
    IF col_desc.data_type # "" THEN col_desc.data_type
    ELSE DictGet(types, col_name(col_desc), "unknown")

\* variant: the response's data_type fills in for a name the TypeMap lacks
stamp_fallback_llm(col_desc, types) ==
    IF col_name(col_desc) \in DOMAIN types THEN types[col_name(col_desc)]
    ELSE IF col_desc.data_type # "" THEN col_desc.data_type
    ELSE "unknown"

\* line 491: the data_type stamped on one column entry
stamp(col_desc, types) == DictGet(types, col_name(col_desc), "unknown")

\* lines 487-492
merge_columns(llm_descriptions, types) ==
    [i \in DOMAIN llm_descriptions |->
        [llm_descriptions[i] EXCEPT !.data_type = stamp(llm_descriptions[i], types)]]

NoResult ==
    [filename |-> <<"", "">>, file_path |-> <<"", "">>, file |-> EmptyMap,
     columns |-> <<>>]

\* lines 495-503
build_result(f, structure, types) ==
    LET file_info == IF structure.has_file THEN structure.file ELSE EmptyMap
        llm_descriptions ==
            IF structure.has_columns THEN structure.columns ELSE <<>>
    IN  [filename |-> <<f.stem, f.suffix>>,
         file_path |-> <<f.stem, f.suffix>>,
         file |-> [name |-> DictGet(file_info, "name", "Dataset"),
                   description |-> DictGet(file_info, "description",
                                           DefaultFile.description)],
         columns |-> merge_columns(llm_descriptions, types)]

\* lines 415-423
minimal_result(f) ==
    [filename |-> <<f.stem, f.suffix>>,
     file_path |-> <<f.stem, f.suffix>>,
     file |-> [name |-> f.stem, description |-> ""],
     columns |-> <<>>]

(***************************************************************************)
(* DescriptionGenerator.generate as a state machine.  The invocation is    *)
(* cut at its blocking points: the reads of the file, the round trip of    *)
(* the generation call, and the backoff sleep.                             *)
(***************************************************************************)
NoErr == [msg |-> <<>>, call |-> 0]

NoRaise == [type |-> "none", err |-> NoErr]

Raise(type) == [type |-> type, err |-> NoErr]

\* no direct call is being made
NoOp == [name |-> "none"]

Init ==
    /\ file \in Files
    /\ pc = "entry"
    /\ processor = "none"
    /\ data_sample = Unset
    /\ data_types = EmptyMap
    /\ attempt = 0
    /\ calls = 0
    /\ successes = 0
    /\ nsleeps = 0
    /\ wait_time = 0
    /\ curErr = NoErr
    /\ response = NoResponse
    /\ llm_response = NoStructure
    /\ result = NoResult
    /\ raised = NoRaise
    /\ registry = Processors
    /\ op = NoOp

\* variant: text files are sampled like any other file
Begin_no_text_shortcut ==
    /\ pc = "entry"
    /\ IF ~file.exists
       THEN /\ raised' = Raise("FileNotFoundError")
            /\ pc' = "raised"
            /\ UNCHANGED result
       ELSE /\ pc' = "sampling"
            /\ UNCHANGED <<result, raised>>
    /\ UNCHANGED <<registry, op, file, processor, data_sample, data_types, attempt, calls,
                   successes, nsleeps, wait_time, curErr, response, llm_response>>

\* lines 407-423: existence check and the shortcut for text files
Begin ==
    /\ pc = "entry"
    /\ IF ~file.exists
       THEN /\ raised' = Raise("FileNotFoundError")
            /\ pc' = "raised"
            /\ UNCHANGED result
       ELSE IF LowerSuffix(file.suffix) \in {".txt", ".text"}
       THEN /\ result' = minimal_result(file)
            /\ pc' = "returned"
            /\ UNCHANGED raised
       ELSE /\ pc' = "sampling"
            /\ UNCHANGED <<result, raised>>
    /\ UNCHANGED <<registry, op, file, processor, data_sample, data_types, attempt, calls,
                   successes, nsleeps, wait_time, curErr, response, llm_response>>

\* lines 425-436: get_processor, _prepare_data_sample, the prompt
SampleFile ==
    /\ pc = "sampling"
    /\ LET got == get_processor(file)
       IN  IF got.raises # "none"
           THEN /\ raised' = Raise(got.raises)
                /\ pc' = "raised"
                /\ UNCHANGED <<processor, data_sample, data_types>>
           ELSE \E out \in prepare_data_sample(file, got.class) :
                    /\ processor' = got.class
                    /\ IF out.raises # "none"
                       THEN /\ raised' = Raise(out.raises)
                            /\ pc' = "raised"
                            /\ UNCHANGED <<data_sample, data_types>>
                       ELSE /\ data_sample' = out.data_sample
                            /\ data_types' = out.data_types
                            /\ pc' = "loop"
                            /\ UNCHANGED raised
    /\ attempt' = 0
    /\ UNCHANGED <<registry, op, file, calls, successes, nsleeps, wait_time, curErr,
                   response, llm_response, result>>

\* variant: the call is issued without waiting for the sampler
IssueCall_unsampled ==
    /\ pc \in {"sampling", "loop"}
    /\ InRange(attempt)
    /\ calls' = calls + 1
    /\ pc' = "in_call"
    /\ UNCHANGED <<registry, op, file, processor, data_sample, data_types, attempt,
                   successes, nsleeps, wait_time, curErr, response,
                   llm_response, result, raised>>

\* line 440: the loop body starts and the generation call is issued
IssueCall ==
    /\ pc = "loop"
    /\ InRange(attempt)
    /\ calls' = calls + 1
    /\ pc' = "in_call"
    /\ UNCHANGED <<registry, op, file, processor, data_sample, data_types, attempt,
                   successes, nsleeps, wait_time, curErr, response,
                   llm_response, result, raised>>

\* variant: no break after a response, the loop goes on
CallReturns_no_break(r) ==
    /\ pc = "in_call"
    /\ response' = r
    /\ successes' = successes + 1
    /\ attempt' = attempt + 1
    /\ pc' = IF InRange(attempt + 1) THEN "loop" ELSE "extract"
    /\ UNCHANGED <<registry, op, file, processor, data_sample, data_types, calls,
                   nsleeps, wait_time, curErr, llm_response, result, raised>>

\* lines 440-446: the call returns a response; break
CallReturns(r) ==
    /\ pc = "in_call"
    /\ response' = r
    /\ successes' = successes + 1
    /\ pc' = "extract"
    /\ UNCHANGED <<registry, op, file, processor, data_sample, data_types, attempt, calls,
                   nsleeps, wait_time, curErr, llm_response, result, raised>>

\* lines 447-472: the call raises e; sleep before a retry, or re-raise
CallFails(e) ==
    /\ pc = "in_call"
    /\ curErr' = [msg |-> e, call |-> calls]
    /\ IF ShouldRetry(e, attempt)
       THEN /\ wait_time' = WaitTime(e, attempt)
            /\ nsleeps' = nsleeps + 1
            /\ pc' = "sleeping"
            /\ UNCHANGED raised
       ELSE /\ raised' = [type |-> "ServiceError", err |-> curErr']
            /\ pc' = "raised"
            /\ UNCHANGED <<wait_time, nsleeps>>
    /\ UNCHANGED <<registry, op, file, processor, data_sample, data_types, attempt, calls,
                   successes, response, llm_response, result>>

\* line 469 returns; the loop moves to the next attempt.  A loop that ends
\* without break leaves `response` unbound for line 475.
SleepEnds ==
    /\ pc = "sleeping"
    /\ attempt' = attempt + 1
    /\ IF InRange(attempt + 1)
       THEN /\ pc' = "loop"
            /\ UNCHANGED raised
       ELSE /\ pc' = "raised"
            /\ raised' = Raise("UnboundLocalError")
    /\ UNCHANGED <<registry, op, file, processor, data_sample, data_types, calls, successes,
                   nsleeps, wait_time, curErr, response, llm_response, result>>

\* line 475
ExtractResponse ==
    /\ pc = "extract"
    /\ LET got == extract_json_from_response(response.text)
       IN  IF got.raises # "none"
           THEN /\ raised' = Raise(got.raises)
                /\ pc' = "raised"
                /\ UNCHANGED llm_response
           ELSE /\ llm_response' = AsDict(got.value)
                /\ pc' = "merge"
                /\ UNCHANGED raised
    /\ UNCHANGED <<registry, op, file, processor, data_sample, data_types, attempt, calls,
                   successes, nsleeps, wait_time, curErr, response, result>>

\* lines 477-505
AssembleProfile ==
    /\ pc = "merge"
    /\ result' = build_result(file, llm_response, data_types)
    /\ pc' = "returned"
    /\ UNCHANGED <<registry, op, file, processor, data_sample, data_types, attempt, calls,
                   successes, nsleeps, wait_time, curErr, response,
                   llm_response, raised>>

Next ==
    \/ Begin
    \/ SampleFile
    \/ IssueCall
    \/ \E r \in Responses : CallReturns(r)
    \/ \E e \in ErrorMessages : CallFails(e)
    \/ SleepEnds
    \/ ExtractResponse
    \/ AssembleProfile

Spec == Init /\ [][Next]_vars

(***************************************************************************)
(* Direct calls of _extract_json_from_response.  A call is made on a JSON  *)
(* (or other) text as the service could write it, and on that text inside  *)
(* a wrapping.                                                             *)
(***************************************************************************)
\* longest columns array of the texts extraction is called on directly
MaxTextCols == 1

\* objects with `file` or `columns`
KeyedObjectTexts ==
    {ObjectText(hf, hc, c, d) :
        hf \in BOOLEAN, hc \in BOOLEAN, c \in ColSeqs(MaxTextCols),
        d \in {PlainDesc, FenceDesc}}
    \ {ObjectText(FALSE, FALSE, <<>>, PlainDesc)}

\* an array whose entry quotes a code fence in its name
FenceArray ==
    <<LBracket, LBrace, Key("name"), QOpen("age"), Fence, QClose, RBrace, RBracket>>

\* arrays
ArrayTexts ==
    {ArrayText(c) : c \in ColSeqs(MaxTextCols)}
    \cup {<<LBracket, Num, RBracket>>, FenceArray}

\* texts without a structure: a keyless object, a number, prose, braces
\* around prose, nothing
OtherTexts ==
    {ObjectText(FALSE, FALSE, <<>>, PlainDesc), <<Num>>, Prose,
     <<LBrace, Word("see below"), RBrace>>, <<>>}

Bodies == KeyedObjectTexts \cup ArrayTexts \cup OtherTexts

Wrapping(pre, post) == [pre |-> pre, post |-> post]

Intro == Word("Here is the description:")

Outro == Word("Let me know if you need more.")

\* nothing or white space around the text
BareWraps == {Wrapping(<<>>, <<>>), Wrapping(<<Ws>>, <<Ws>>)}

\* a fenced code block around the text, with or without the json tag and
\* with or without prose around the block
FencedWraps ==
    {Wrapping(<<Fence, Ws>>, <<Ws, Fence>>),
     Wrapping(<<Fence, JsonTag, Ws>>, <<Ws, Fence>>),
     Wrapping(<<Fence, JsonTag>>, <<Fence>>),
     Wrapping(<<Intro, Ws, Fence, Ws>>, <<Ws, Fence, Ws, Outro>>),
     Wrapping(<<Intro, Ws, Fence, JsonTag, Ws>>, <<Ws, Fence, Ws, Outro>>)}

\* prose around the text; a bracketed reference before it; braces in the
\* prose before it; a fenced block of prose before it
ProseWraps ==
    {Wrapping(<<Intro, Ws>>, <<Ws, Outro>>),
     Wrapping(<<Word("See"), Ws, LBracket, Num, RBracket, Word(":"), Ws>>, <<>>),
     Wrapping(<<Word("Fields"), Ws, LBrace, Word("all"), RBrace, Word(":"), Ws>>, <<>>),
     Wrapping(<<Fence, Ws, Word("no data shown"), Ws, Fence, Ws>>, <<>>)}

\* a fenced block that holds more than the text: another language tag,
\* prose before the text, a brace after the block
LooseFencedWraps ==
    {Wrapping(<<Fence, Word("javascript"), Ws>>, <<Ws, Fence>>),
     Wrapping(<<Fence, Ws, Word("Result:"), Ws>>, <<Ws, Fence>>),
     Wrapping(<<Fence, Ws, Word("Result:"), Ws>>, <<Ws, Fence, Ws, RBrace>>)}

Wraps == BareWraps \cup FencedWraps \cup ProseWraps \cup LooseFencedWraps

Wrap(w, body) == w.pre \o body \o w.post

NotRun == [raises |-> "pending", value |-> NoValue, by |-> 0]

\* no generate() invocation has started
Idle ==
    /\ pc = "entry"
    /\ processor = "none"
    /\ data_sample = Unset
    /\ data_types = EmptyMap
    /\ attempt = 0
    /\ calls = 0
    /\ successes = 0
    /\ nsleeps = 0
    /\ wait_time = 0
    /\ curErr = NoErr
    /\ response = NoResponse
    /\ llm_response = NoStructure
    /\ result = NoResult
    /\ raised = NoRaise

InitExtract ==
    /\ file = NoSuffixFile
    /\ Idle
    /\ registry = Processors
    /\ op \in {[name |-> "extract", body |-> b, wrap |-> w, text |-> Wrap(w, b),
                on_body |-> NotRun, on_text |-> NotRun] :
                 b \in Bodies, w \in Wraps}

\* _extract_json_from_response(body)
ExtractBody ==
    /\ op.name = "extract"
    /\ op.on_body = NotRun
    /\ op' = [op EXCEPT !.on_body = extract_json_from_response(op.body)]
    /\ UNCHANGED <<file, registry, genVars>>

\* _extract_json_from_response(text)
ExtractText ==
    /\ op.name = "extract"
    /\ op.on_text = NotRun
    /\ op' = [op EXCEPT !.on_text = extract_json_from_response(op.text)]
    /\ UNCHANGED <<file, registry, genVars>>

NextExtract == ExtractBody \/ ExtractText

SpecExtract == InitExtract /\ [][NextExtract]_vars

(***************************************************************************)
(* Direct calls of get_top_n on the reader of a file.                      *)
(***************************************************************************)
\* largest n get_top_n is called with directly
MaxN == 6

\* line-delimited files of three lines, each a record or blank
JsonlBlanks == {Jsonl(l) : l \in [1..3 -> {Rec([age |-> "int"]), BlankLine}]}

\* the files a reader can be constructed for
ReaderFiles ==
    {f \in Files \cup JsonlBlanks : create(Processors, f, NoType).raises = "none"}

NoTop == [raises |-> "pending", kind |-> "none", units |-> <<>>]

Top(kind, units) == [raises |-> "none", kind |-> kind, units |-> units]

\* get_top_n(n) of the reader class proc on the file f; sheet is "first" for
\* a call with sheet_name=<first sheet>, "all" for a call without sheet_name
get_top_n(proc, f, n, sheet) ==
    IF ~f.ok THEN [raises |-> "ParseError", kind |-> "none", units |-> <<>>]
    ELSE IF proc = "CSVProcessor" THEN Top("rows", CsvTopN(f, n).rows)
    ELSE IF proc = "XLSXProcessor"
    THEN IF sheet = "first" THEN Top("rows", HeadTopN(f, n).rows)
         \* read() without sheet_name gives a dict of all sheets, which
         \* BaseProcessor.get_top_n returns as it is
         ELSE Top("sheets", f.rows)
    ELSE IF proc = "JSONLProcessor" THEN Top("records", JsonlTopN(f, n))
    ELSE IF proc = "JSONProcessor" THEN Top("paths", JsonTopN(f, n))
    ELSE IF proc = "TXTProcessor" THEN Top("lines", Min(n, f.nlines))
    \* XMLProcessor: read() gives the root element, returned as it is
    ELSE Top("element", f.nlines)

\* the loop of read_chunks: units[i..] are still to be read, chunk is the
\* list being filled, out the chunks yielded so far
RECURSIVE ChunkLoop(_, _, _, _, _)
ChunkLoop(units, i, chunk, out, chunk_size) ==
    IF i > Len(units)
    THEN IF chunk # <<>> THEN Append(out, chunk) ELSE out
    ELSE LET filled == Append(chunk, units[i])
         IN  IF Len(filled) >= chunk_size
             THEN ChunkLoop(units, i + 1, <<>>, Append(out, filled), chunk_size)
             ELSE ChunkLoop(units, i + 1, filled, out, chunk_size)

\* the lines of a text file, each known by its number
TxtLines(f) == [i \in 1..f.nlines |-> i]

\* variant: the blank lines of a line-delimited file are chunked as well
read_chunks_blank_units(proc, f, chunk_size) ==
    IF ~f.ok THEN [raises |-> "ParseError", kind |-> "none", units |-> <<>>]
    ELSE IF proc = "JSONLProcessor"
    THEN Top("chunks", ChunkLoop([i \in DOMAIN f.lines |-> f.lines[i].rec], 1,
                                 <<>>, <<>>, chunk_size))
    ELSE Top("chunks", ChunkLoop(TxtLines(f), 1, <<>>, <<>>, chunk_size))

\* list(reader.read_chunks(chunk_size)) of JSONLProcessor and TXTProcessor
read_chunks(proc, f, chunk_size) ==
    IF ~f.ok THEN [raises |-> "ParseError", kind |-> "none", units |-> <<>>]
    ELSE IF proc = "JSONLProcessor"
    THEN Top("chunks", ChunkLoop(JsonlRead(f), 1, <<>>, <<>>, chunk_size))
    ELSE Top("chunks", ChunkLoop(TxtLines(f), 1, <<>>, <<>>, chunk_size))

InitReaders ==
    /\ file \in ReaderFiles
    /\ Idle
    /\ registry = Processors
    /\ op \in {[name |-> "get_top_n", n |-> n, sheet |-> sh, done |-> FALSE,
                ret |-> NoTop] :
                 n \in 0..MaxN,
                 sh \in IF LowerSuffix(file.suffix) \in {".xlsx", ".xls"}
                        THEN {"all", "first"} ELSE {"all"}}
           \cup
           {[name |-> "read_chunks", n |-> c, sheet |-> "all", done |-> FALSE,
             ret |-> NoTop] :
                 c \in IF get_processor(file).class \in {"JSONLProcessor", "TXTProcessor"}
                       THEN 0..MaxN ELSE {}}

\* get_processor(file).get_top_n(n)
GetTopN ==
    /\ op.name = "get_top_n"
    /\ ~op.done
    /\ op' = [op EXCEPT !.done = TRUE,
                        !.ret = get_top_n(get_processor(file).class, file,
                                          op.n, op.sheet)]
    /\ UNCHANGED <<file, registry, genVars>>

\* list(get_processor(file).read_chunks(c))
ReadChunks ==
    /\ op.name = "read_chunks"
    /\ ~op.done
    /\ op' = [op EXCEPT !.done = TRUE,
                        !.ret = read_chunks(get_processor(file).class, file, op.n)]
    /\ UNCHANGED <<file, registry, genVars>>

NextReaders == GetTopN \/ ReadChunks

SpecReaders == InitReaders /\ [][NextReaders]_vars

(***************************************************************************)
(* Direct calls of _get_data_types_from_records on a list of records.      *)
(***************************************************************************)
\* longest run of freely chosen records at the start of a list
MaxHead == 3

\* longest run of freely chosen records at the end of a list
MaxTail == 2

\* all sequences over S of length at most n
SeqsUpTo(S, n) == UNION {[1..k -> S] : k \in 0..n}

\* records with the one field age, its value of the given type; {} without it
AgeRecords == {[age |-> t] : t \in {"int", "str", "NoneType"}} \cup {EmptyMap}

\* a free head, then null records up to about the tenth, then a free tail
\* without nulls, which lies beyond the tenth record when the filler is long
RecordLists ==
    {head \o Repeat([age |-> "NoneType"], k) \o tail :
        head \in SeqsUpTo(AgeRecords, MaxHead),
        k \in {0, 7, 8, 9, 10},
        tail \in SeqsUpTo({[age |-> "int"], [age |-> "str"]}, MaxTail)}

InitRecords ==
    /\ file = NoSuffixFile
    /\ Idle
    /\ registry = Processors
    /\ op \in {[name |-> "get_data_types", records |-> rs, done |-> FALSE,
                ret |-> EmptyMap] : rs \in RecordLists}

\* one call of _get_data_types_from_records(records)
GetDataTypes ==
    /\ op.name = "get_data_types"
    /\ ~op.done
    /\ \E types \in get_data_types_from_records(op.records) :
          op' = [op EXCEPT !.done = TRUE, !.ret = types]
    /\ UNCHANGED <<file, registry, genVars>>

NextRecords == GetDataTypes

SpecRecords == InitRecords /\ [][NextRecords]_vars

(***************************************************************************)
(* Direct calls of the factory: register, create, is_supported.            *)
(***************************************************************************)
\* number of successful register calls in one behaviour
MaxRegs == 2

ParquetFile == [NoFile EXCEPT !.suffix = ".parquet"]

\* the paths create and is_supported are called with
FactoryPaths == {CsvMixed, CsvUpper, CsvMissing, TxtFile, PdfFile, ParquetFile}

\* the explicit file types create is called with
FileTypes == {NoType, "CSV", "csv", ".Csv", "parquet"}

\* the extensions register is called with
RegisterExts == {".csv", "CSV", "parquet", ".Parquet"}

\* the classes register is called with
RegisterClasses == {CustomClass, "TXTProcessor", PlainClass}

\* the bare strings is_supported is called with
SupportedArgs == {".csv", "CSV", "parquet", ".Parquet"}

\* str(path) of a path without a directory part
BareName(path) ==
    IF path.stem = "data" /\ path.suffix = ".csv" THEN "data.csv" ELSE path.suffix

\* the paths is_supported is given as bare file names
BareNamePaths == {CsvMixed, CsvMissing}

NoCall == [fn |-> "none", path |-> NoFile, as_path |-> FALSE, arg |-> "", cls |-> "none"]

NoRet ==
    [raises |-> "none", class |-> "none", selected |-> "none", supported |-> {},
     ok |-> FALSE]

InitFactory ==
    /\ file = NoSuffixFile
    /\ Idle
    /\ registry = Processors
    /\ op = [name |-> "factory", log |-> <<>>, call |-> NoCall, ret |-> NoRet]

\* ProcessorFactory.register(ext, cls); the log keeps the calls that returned
Register(ext, cls) ==
    /\ op.name = "factory"
    /\ Len(op.log) < MaxRegs
    /\ LET r == register(registry, ext, cls)
       IN  /\ registry' = r.registry
           /\ op' = [op EXCEPT
                       !.log = IF r.raises = "none"
                               THEN Append(@, [ext |-> ext, cls |-> cls]) ELSE @,
                       !.call = [NoCall EXCEPT !.fn = "register", !.arg = ext,
                                               !.cls = cls],
                       !.ret = [NoRet EXCEPT !.raises = r.raises]]
    /\ UNCHANGED <<file, genVars>>

\* ProcessorFactory.create(path, file_type)
Create(path, file_type) ==
    /\ op.name = "factory"
    /\ LET r == create(registry, path, file_type)
       IN  op' = [op EXCEPT
                    !.call = [NoCall EXCEPT !.fn = "create", !.path = path,
                                            !.as_path = TRUE, !.arg = file_type],
                    !.ret = [NoRet EXCEPT !.raises = r.raises, !.class = r.class,
                                          !.selected = r.selected,
                                          !.supported = r.supported]]
    /\ UNCHANGED <<file, registry, genVars>>

\* ProcessorFactory.is_supported(Path) and is_supported(str)
IsSupported(as_path, path, s) ==
    /\ op.name = "factory"
    /\ op' = [op EXCEPT
                !.call = [NoCall EXCEPT !.fn = "is_supported", !.path = path,
                                        !.as_path = as_path, !.arg = s],
                !.ret = [NoRet EXCEPT
                           !.ok = is_supported(registry, as_path,
                                               IF as_path THEN path.suffix ELSE s)]]
    /\ UNCHANGED <<file, registry, genVars>>

NextFactory ==
    \/ \E ext \in RegisterExts, cls \in RegisterClasses : Register(ext, cls)
    \/ \E path \in FactoryPaths, file_type \in FileTypes : Create(path, file_type)
    \/ \E path \in FactoryPaths : IsSupported(TRUE, path, "")
    \/ \E s \in SupportedArgs : IsSupported(FALSE, NoFile, s)
    \/ \E path \in BareNamePaths : IsSupported(FALSE, path, BareName(path))

SpecFactory == InitFactory /\ [][NextFactory]_vars

(***************************************************************************)
(* generate_description(file_path, output_path): generate_to_file followed *)
(* by generate when an output path is given, generate alone otherwise.     *)
(***************************************************************************)
\* the files generate_description is called on
DescribeFiles == {CsvMixed, CsvMissing, TxtFile}

\* what the service answers in these behaviours
DescribeResponses ==
    {Resp("raw", "array", FALSE, FALSE, c) : c \in ColSeqs(1)}
    \cup {Resp("raw", "none", FALSE, FALSE, <<>>)}

\* the errors the service raises in these behaviours
DescribeErrors == {ErrRefused, Err429}

InitDescribe ==
    /\ file \in DescribeFiles
    /\ Idle
    /\ registry = Processors
    /\ op \in {[name |-> "generate_description", output_path |-> o,
                phase |-> IF o THEN "generate_to_file" ELSE "generate",
                written |-> NoResult, returned |-> NoResult, raises |-> "none",
                ok_calls |-> 0] : o \in BOOLEAN}

\* lines 523-536: generate has returned inside generate_to_file, the profile
\* is written; line 564 then starts generate anew
SaveProfile ==
    /\ op.name = "generate_description"
    /\ op.phase = "generate_to_file"
    /\ pc = "returned"
    /\ op' = [op EXCEPT !.written = result, !.ok_calls = @ + successes,
                        !.phase = "generate"]
    /\ pc' = "entry"
    /\ processor' = "none"
    /\ data_sample' = Unset
    /\ data_types' = EmptyMap
    /\ attempt' = 0
    /\ calls' = 0
    /\ successes' = 0
    /\ nsleeps' = 0
    /\ wait_time' = 0
    /\ curErr' = NoErr
    /\ response' = NoResponse
    /\ llm_response' = NoStructure
    /\ result' = NoResult
    /\ raised' = NoRaise
    /\ UNCHANGED <<file, registry>>

\* line 523: generate raises inside generate_to_file, nothing is written
SaveRaises ==
    /\ op.name = "generate_description"
    /\ op.phase = "generate_to_file"
    /\ pc = "raised"
    /\ op' = [op EXCEPT !.raises = raised.type, !.ok_calls = @ + successes,
                        !.phase = "done"]
    /\ UNCHANGED <<file, registry, genVars>>

\* lines 564 and 566: what generate gives is what generate_description gives
ReturnProfile ==
    /\ op.name = "generate_description"
    /\ op.phase = "generate"
    /\ pc \in {"returned", "raised"}
    /\ op' = [op EXCEPT !.returned = result, !.raises = raised.type,
                        !.ok_calls = @ + successes, !.phase = "done"]
    /\ UNCHANGED <<file, registry, genVars>>

NextDescribe ==
    \/ Begin
    \/ SampleFile
    \/ IssueCall
    \/ \E r \in DescribeResponses : CallReturns(r)
    \/ \E e \in DescribeErrors : CallFails(e)
    \/ SleepEnds
    \/ ExtractResponse
    \/ AssembleProfile
    \/ SaveProfile
    \/ SaveRaises
    \/ ReturnProfile

SpecDescribe == InitDescribe /\ [][NextDescribe]_vars

(***************************************************************************)
(* DescriptionService.run.  What generate does with one file is its        *)
(* outcome, "ok" (a profile is returned) or "fails" (an Exception).  Only  *)
(* the loop under RICH_AVAILABLE is modelled: without rich the module      *)
(* stops at its import, on the Theme(...) call of line 39.                 *)
(***************************************************************************)
\* largest number of files the crawl finds
MaxFiles == 3

NoStats == [success |-> 0, failed |-> 0, total |-> 0]

\* data_files[:limit] when limit is truthy
Limited(found, limit) ==
    IF limit = 0 THEN found ELSE SubSeq(found, 1, Min(limit, Len(found)))

\* root_exists: data_root.exists(); under_root: the data directory lies under
\* project_root (it does not when data_dir is an absolute path elsewhere);
\* found: the outcomes generate will have on the files find_all_files gives;
\* limit: 0 for None
InitService ==
    /\ file = NoSuffixFile
    /\ Idle
    /\ registry = Processors
    /\ op \in {[name |-> "run", root_exists |-> e, under_root |-> u, found |-> fs,
                limit |-> l, phase |-> "start", data_files |-> <<>>, handled |-> 0,
                consolidated_results |-> <<>>, stats |-> NoStats,
                saved |-> NoStats] :
                 e \in BOOLEAN, u \in BOOLEAN,
                 fs \in SeqsUpTo({"ok", "fails"}, MaxFiles), l \in 0..MaxFiles}

\* lines 130-150: the early returns, the limit, the counters
StartRun ==
    /\ op.name = "run"
    /\ op.phase = "start"
    /\ IF ~op.root_exists \/ op.found = <<>>
       THEN op' = [op EXCEPT !.phase = "returned"]
       ELSE LET data_files == Limited(op.found, op.limit)
            IN  op' = [op EXCEPT !.phase = "loop", !.data_files = data_files,
                                 !.stats = [NoStats EXCEPT !.total = Len(data_files)]]
    /\ UNCHANGED <<file, registry, genVars>>

\* lines 165-186: one pass of the loop.  relative_to(project_root) on line
\* 166 stands before the try and raises ValueError for a file outside the
\* project root.
HandleFile ==
    /\ op.name = "run"
    /\ op.phase = "loop"
    /\ op.handled < Len(op.data_files)
    /\ LET outcome == op.data_files[op.handled + 1]
       IN  IF ~op.under_root
           THEN op' = [op EXCEPT !.phase = "raised"]
           ELSE IF outcome = "ok"
           THEN op' = [op EXCEPT
                         !.consolidated_results = Append(@, op.handled + 1),
                         !.stats.success = @ + 1,
                         !.handled = @ + 1]
           ELSE op' = [op EXCEPT !.stats.failed = @ + 1, !.handled = @ + 1]
    /\ UNCHANGED <<file, registry, genVars>>

\* lines 203-205: the loop has ended, _save_results writes the counters
SaveResults ==
    /\ op.name = "run"
    /\ op.phase = "loop"
    /\ op.handled = Len(op.data_files)
    /\ op' = [op EXCEPT !.phase = "saved", !.saved = op.stats]
    /\ UNCHANGED <<file, registry, genVars>>

NextService == StartRun \/ HandleFile \/ SaveResults

SpecService == InitService /\ [][NextService]_vars

(***************************************************************************)
(* Properties.                                                             *)
(***************************************************************************)
\* the primitive type tags of the data model
Tags == {"null", "bool", "int", "float", "str", "list", "dict", "datetime", "unknown"}

\* the fields the file holds: column names of a table, keys of the records
\* of a line-delimited file, paths of the scalar and null leaves of a document
FieldSpace(f) ==
    LET ext == LowerSuffix(f.suffix)
    IN  IF ext \in {".csv", ".xlsx", ".xls"} THEN Range(f.header)
        ELSE IF ext = ".jsonl"
        THEN UNION {DOMAIN f.lines[i].rec : i \in DOMAIN f.lines}
        ELSE IF ext = ".json"
        THEN {f.events[i].prefix :
                i \in {j \in DOMAIN f.events :
                         f.events[j].event \in {"string", "number", "boolean", "null"}}}
        ELSE {}

\* C1: one generate invocation issues at most 3 generation calls, whatever
\* errors the service raises.
C1_AtMostThreeCalls == calls <= 3

\* three calls were issued and the third one failed as well
C1_Witness == calls = 3 /\ pc = "raised" /\ raised.err.call = 3

\* C2: at most one call succeeds and calls never overlap: after a response
\* no call is issued, and a call is issued only from the head of the loop,
\* when every earlier call has failed and the sleep after it has ended.
C2_OneSuccessNoOverlap ==
    [][/\ successes' <= 1
       /\ (successes >= 1 => calls' = calls)
       /\ (calls' # calls =>
             /\ calls' = calls + 1
             /\ pc = "loop"
             /\ curErr.call = calls
             /\ nsleeps = calls)]_vars

\* the third call, issued after two failures and two sleeps, succeeded
C2_Witness == successes = 1 /\ calls = 3 /\ nsleeps = 2 /\ pc = "returned"

\* C3: a failed call whose message carries no rate/size-limit marker is
\* re-raised at once, with no sleep and no further call, on any attempt;
\* nothing happens after the raise.
C3_FatalErrorRaisedAtOnce ==
    [][/\ (pc = "in_call" /\ curErr'.call = calls /\ ~is_rate_limit(curErr'.msg)) =>
             /\ pc' = "raised"
             /\ raised' = [type |-> "ServiceError", err |-> curErr']
             /\ nsleeps' = nsleeps
             /\ calls' = calls
       /\ (pc = "raised" => calls' = calls /\ nsleeps' = nsleeps)]_vars

\* a marker-free error (carrying a wait hint) was raised from the second call
C3_Witness ==
    /\ pc = "raised"
    /\ raised.err = [msg |-> ErrTimeoutHint, call |-> 2]
    /\ calls = 2
    /\ nsleeps = 1

\* C4: when the third call fails too, generate raises that third error and
\* returns no profile.
C4_LastErrorRaised ==
    (calls = 3 /\ curErr.call = 3) =>
        /\ pc = "raised"
        /\ raised = [type |-> "ServiceError", err |-> curErr]
        /\ result = NoResult

\* three retryable failures in a row
C4_Witness ==
    /\ pc = "raised"
    /\ calls = 3
    /\ nsleeps = 2
    /\ raised.err.call = 3
    /\ is_rate_limit(raised.err.msg)

\* C5: without a server hint the sleep after the failed attempt a lasts
\* 2 * 2^a seconds: 2 s after attempt 0, 4 s after attempt 1.
C5_ExponentialDefault ==
    [][(nsleeps' = nsleeps + 1 /\ WaitMatchAt(curErr'.msg) = {}) =>
          /\ wait_time' = 2000 * (2 ^ attempt)
          /\ (attempt = 0 => wait_time' = 2000)
          /\ (attempt = 1 => wait_time' = 4000)]_vars

\* sleeping 4 s after the second attempt failed without a hint
C5_Witness ==
    /\ pc = "sleeping"
    /\ attempt = 1
    /\ WaitMatchAt(curErr.msg) = {}
    /\ wait_time = 4000

\* C6: with 'try again in <k>ms' in the message the sleep lasts
\* max(k, 1000) ms on every attempt index; k = 1500 gives 1.5 s.
C6_ServerHint ==
    [][(nsleeps' = nsleeps + 1 /\ WaitMatchAt(curErr'.msg) # {}) =>
          LET k == wait_match(curErr'.msg)
          IN  /\ k >= 1000 => wait_time' = k
              /\ k < 1000 => wait_time' = 1000
              /\ k = 1500 => wait_time' = 1500]_vars

\* sleeping 1.5 s after the second attempt, where the default would be 4 s
C6_Witness ==
    /\ pc = "sleeping"
    /\ attempt = 1
    /\ curErr.msg = ErrHint1500
    /\ wait_time = 1500

\* C7: sampling has finished before the first generation call, the TypeMap
\* (and the payload) do not change once sampling has finished, and the merge
\* happens only after a call has returned a response.
C7_SampleCallMergeOrder ==
    /\ [](calls >= 1 => (data_sample.kind # "unset" /\ pc \notin {"entry", "sampling"}))
    /\ [][/\ (data_sample.kind # "unset" =>
                (data_types' = data_types /\ data_sample' = data_sample))
          /\ ((calls >= 1 /\ result' # result) =>
                (pc = "merge" /\ successes = 1 /\ response # NoResponse))]_vars

\* a profile merged from a response and a non-empty TypeMap
C7_Witness ==
    /\ pc = "returned"
    /\ successes = 1
    /\ DOMAIN data_types # {}
    /\ result.columns # <<>>

\* C8: every column of the profile carries TypeMap[name], or "unknown" when
\* the name is no key of the TypeMap, whatever data_type the response gave;
\* the name of an entry is read as col_desc.get('name', '').
C8_DataTypeFromTypeMap ==
    (pc = "returned" /\ calls >= 1) =>
        /\ Len(result.columns) = Len(llm_response.columns)
        /\ \A i \in DOMAIN result.columns :
              LET given == llm_response.columns[i]
                  nm == IF given.has_name THEN given.name ELSE ""
              IN  /\ result.columns[i].name = given.name
                  /\ nm \in DOMAIN data_types =>
                        result.columns[i].data_type = data_types[nm]
                  /\ nm \notin DOMAIN data_types =>
                        result.columns[i].data_type = "unknown"

\* TypeMap {age: int}, the response claims "string" for age, the profile
\* says int
C8_Witness ==
    /\ pc = "returned"
    /\ "age" \in DOMAIN data_types
    /\ data_types["age"] = "int"
    /\ \E i \in DOMAIN result.columns :
          /\ llm_response.columns[i].name = "age"
          /\ llm_response.columns[i].data_type = "string"
          /\ result.columns[i].data_type = "int"

\* C9 as stated: every name in the columns of a returned profile is a field
\* of the file.
C9_NamesInFieldSpace ==
    pc = "returned" =>
        \A i \in DOMAIN result.columns :
            result.columns[i].has_name => result.columns[i].name \in FieldSpace(file)

\* C9 as amended: the names of the profile are the names the response gave,
\* in order and unfiltered; a name whose data_type is not "unknown" is a key
\* of the TypeMap and a field of the file.
C9_TypedNamesInFieldSpace ==
    /\ DOMAIN data_types \subseteq FieldSpace(file)
    /\ (pc = "returned" /\ calls >= 1) =>
          /\ Len(result.columns) = Len(response.columns)
          /\ \A i \in DOMAIN result.columns :
                /\ result.columns[i].has_name = response.columns[i].has_name
                /\ result.columns[i].name = response.columns[i].name
                /\ (result.columns[i].has_name
                    /\ result.columns[i].data_type # "unknown") =>
                       /\ result.columns[i].name \in DOMAIN data_types
                       /\ result.columns[i].name \in FieldSpace(file)

\* a profile with a field of the file, typed, and a name the file lacks
C9_Witness ==
    /\ pc = "returned"
    /\ \E i, j \in DOMAIN result.columns :
          /\ result.columns[i].name = "age"
          /\ result.columns[i].data_type \notin {"unknown", "string"}
          /\ result.columns[j].name = "ghost"
          /\ "ghost" \notin FieldSpace(file)
          /\ result.columns[j].data_type = "unknown"

MappedDtypes ==
    {"int64", "int32", "uint64", "float64", "float32", "bool",
     "datetime64[ns]", "object"}

\* the storage type of column k of the file, when it has no case
UnmappedDtype(f, k, tag) ==
    /\ LowerSuffix(f.suffix) \in {".csv", ".xlsx", ".xls"}
    /\ k \in Range(f.header)
    /\ tag = ReadTable(f).dtypes[k]
    /\ tag \notin MappedDtypes

ExtractRuns ==
    {r \in {[text |-> op.body, out |-> op.on_body],
            [text |-> op.text, out |-> op.on_text]} : r.out # NotRun}

\* a text without its white space
Bare(text) == SelectSeq(text, LAMBDA k : k.t # "ws")

\* {file: {name: "Dataset", description: placeholder}, columns: array}
Legacy(array) ==
    <<LBrace, Key("file"), LBrace, Key("name"), Str("Dataset"), Comma,
      Key("description"), Str("A dataset containing structured records."),
      RBrace, Comma, Key("columns")>> \o array \o <<RBrace>>

\* C11: when the whole text (white space aside) is one JSON value, an object
\* with `file` or `columns` is returned unchanged and a bare array is
\* returned as the columns of a structure with the default file descriptor;
\* in both cases the value comes from strategy 1.
C11_WholeTextParsed ==
    \A r \in ExtractRuns :
        /\ Bare(r.text) \in KeyedObjectTexts =>
              r.out = [raises |-> "none", value |-> Bare(r.text), by |-> 1]
        /\ Bare(r.text) \in ArrayTexts =>
              r.out = [raises |-> "none", value |-> Legacy(Bare(r.text)), by |-> 1]

\* a bare array between white space came back under the default descriptor,
\* and an object with only `columns` came back as it was
C11_Witness ==
    /\ op.name = "extract"
    /\ op.wrap = Wrapping(<<Ws>>, <<Ws>>)
    /\ \/ /\ op.body \in ArrayTexts
          /\ op.on_text.by = 1
          /\ StrOf(GetKey(GetKey(op.on_text.value, "file"), "name")) = "Dataset"
          /\ GetKey(op.on_text.value, "columns") = op.body
       \/ /\ op.body = ObjectText(FALSE, TRUE, <<>>, PlainDesc)
          /\ op.on_text.by = 1
          /\ op.on_text.value = op.body

\* C12 as stated: for every text T strategy 1 accepts, the extraction of T
\* inside a fenced code block (tagged or not, with or without prose around
\* it) returns exactly what the extraction of T returns.
C12_FencedSameAsPlain ==
    (op.wrap \in FencedWraps /\ op.on_body.by = 1 /\ op.on_text # NotRun) =>
        /\ op.on_text.raises = "none"
        /\ op.on_text.value = op.on_body.value

\* C13 as stated: when strategies 1 and 2 yield nothing and the slice of the
\* raw text from its first { to its last } is an object with `file` or
\* `columns`, that object is returned.
C13_ObjectSliceOfRawText ==
    \A r \in ExtractRuns :
        LET a == Find(r.text, "{")
            b == RFind(r.text, "}")
            sl == Loads(SubSeq(r.text, a, b))
        IN  (r.out.by \notin {1, 2} /\ a # 0 /\ b # 0
             /\ sl.ok /\ IsDict(sl.value) /\ Keyed(sl.value)) =>
                /\ r.out.raises = "none"
                /\ r.out.value = sl.value

\* the text the slices are taken from: the stripped content of the first
\* fenced block when that content is not valid JSON, the raw text otherwise
WorkingText(text) ==
    LET m == code_block_match(text)
    IN  IF m.found /\ ~Loads(Strip(m.group)).ok THEN Strip(m.group) ELSE text

\* C13 as amended: when strategies 1 and 2 yield nothing, no [ precedes the
\* first { of the working text, and the slice of the working text from its
\* first { to its last } is an object with `file` or `columns`, strategy 3
\* returns that object.
C13_ObjectSliceOfWorkingText ==
    \A r \in ExtractRuns :
        LET t == WorkingText(r.text)
            a == Find(t, "{")
            b == RFind(t, "}")
            c == Find(t, "[")
            sl == Loads(SubSeq(t, a, b))
        IN  (r.out.by \notin {1, 2} /\ a # 0 /\ b # 0 /\ (c = 0 \/ a < c)
             /\ sl.ok /\ IsDict(sl.value) /\ Keyed(sl.value)) =>
                r.out = [raises |-> "none", value |-> sl.value, by |-> 3]

\* an object with columns was recovered from between two pieces of prose
C13_Witness ==
    /\ op.name = "extract"
    /\ op.wrap = Wrapping(<<Intro, Ws>>, <<Ws, Outro>>)
    /\ op.body \in KeyedObjectTexts
    /\ HasKey(op.body, "columns")
    /\ op.on_text = [raises |-> "none", value |-> op.body, by |-> 3]

\* the service wrote neither an object with `file` or `columns` nor an array
NothingToRecover(r) ==
    r.json = "none" \/ (r.json = "object" /\ ~r.has_file /\ ~r.has_columns)

\* C14: a response from which no strategy recovers a structure makes the
\* extraction raise ValueError and generate end without a profile; a profile
\* is built only from a recovered structure, which has `file` or `columns`.
C14_NoStructureRaises ==
    /\ []((pc \in {"merge", "returned"} /\ calls >= 1) =>
            /\ ~NothingToRecover(response)
            /\ (llm_response.has_file \/ llm_response.has_columns))
    /\ [](pc = "raised" => result = NoResult)
    /\ [][(pc = "extract" /\ NothingToRecover(response)) =>
            /\ pc' = "raised"
            /\ raised'.type = "ValueError"
            /\ result' = NoResult]_vars

\* plain prose came back from the first call and generate raised ValueError
C14_Witness ==
    /\ pc = "raised"
    /\ raised.type = "ValueError"
    /\ successes = 1
    /\ response = Resp("raw", "none", FALSE, FALSE, <<>>)
    /\ result = NoResult

\* C15 as stated: get_top_n(n) returns at most n units (rows, records,
\* lines, values of one field path) and fewer than n only when the file
\* holds fewer than n of them, wherever the blank lines of a line-delimited
\* file are.
C15_TopNAtMostN ==
    (op.name = "get_top_n" /\ op.done /\ op.ret.raises = "none") =>
        LET n == op.n
            u == op.ret.units
            records == {i \in DOMAIN file.lines : ~file.lines[i].blank}
            scalars(p) ==
                {i \in DOMAIN file.events :
                    /\ file.events[i].prefix = p
                    /\ file.events[i].event \in {"string", "number", "boolean"}}
        IN  CASE op.ret.kind \in {"rows", "sheets"} ->
                    Len(u) <= n /\ (Len(u) < n => Len(file.rows) < n)
              [] op.ret.kind = "records" ->
                    Len(u) <= n /\ (Len(u) < n => Cardinality(records) < n)
              [] op.ret.kind = "lines" ->
                    u <= n /\ (u < n => file.nlines < n)
              [] op.ret.kind = "paths" ->
                    \A p \in DOMAIN u :
                        Len(u[p]) <= n /\ (Len(u[p]) < n => Cardinality(scalars(p)) < n)
              [] OTHER -> TRUE

\* C16 as stated: every field with a non-null value among the first 10
\* records gets the type most frequent among those values, a tie going to
\* the type met first in record order; later records have no influence.
C16_MajorityFirstSeen ==
    (op.name = "get_data_types" /\ op.done) =>
        LET rs == op.records
            ten == {i \in 1..Len(rs) : i <= 10}
            vals(fl) == {i \in ten : fl \in DOMAIN rs[i] /\ rs[i][fl] # "NoneType"}
            count(fl, t) == Cardinality({i \in vals(fl) : infer_data_type(rs[i][fl]) = t})
            firstAt(fl, t) ==
                CHOOSE i \in vals(fl) :
                    /\ infer_data_type(rs[i][fl]) = t
                    /\ \A j \in vals(fl) : infer_data_type(rs[j][fl]) = t => i <= j
            seen(fl) == {infer_data_type(rs[i][fl]) : i \in vals(fl)}
            beats(fl, t, u) ==
                \/ count(fl, t) > count(fl, u)
                \/ count(fl, t) = count(fl, u) /\ firstAt(fl, t) <= firstAt(fl, u)
        IN  \A fl \in DOMAIN op.ret :
                vals(fl) # {} =>
                    /\ op.ret[fl] \in seen(fl)
                    /\ \A u \in seen(fl) : beats(fl, op.ret[fl], u)

\* C17: for a delimited-table file the sample payload is exactly the first
\* min(5, row count) rows in file order, and the TypeMap comes from all rows:
\* a column that is integer in its first 5 rows and floating in a later row
\* is typed float.
C17_SampleFiveTypesAllRows ==
    (data_sample.kind = "rows" /\ LowerSuffix(file.suffix) = ".csv") =>
        LET rows == file.rows
            cells(c) == {rows[i][c] : i \in DOMAIN rows}
        IN  /\ Len(data_sample.value) = Min(5, Len(rows))
            /\ \A i \in DOMAIN data_sample.value : data_sample.value[i] = rows[i]
            /\ DOMAIN data_types = Range(file.header)
            /\ \A c \in Range(file.header) :
                  /\ data_types[c] = dtype_tag(column_dtype(cells(c), FALSE))
                  /\ ( /\ \A i \in DOMAIN rows : i <= 5 => rows[i][c] = "int"
                       /\ \E i \in DOMAIN rows : i > 5 /\ rows[i][c] = "float"
                       /\ cells(c) = {"int", "float"} )
                     => data_types[c] = "float"

\* the 7-row table: 5 rows sampled, amount integer in all of them, typed float
C17_Witness ==
    /\ file = CsvSeven
    /\ Len(file.rows) > 5
    /\ data_sample.kind = "rows"
    /\ Len(data_sample.value) = 5
    /\ \A i \in 1..5 : data_sample.value[i].amount = "int"
    /\ data_types = [id |-> "int", amount |-> "float"]

\* the spellings of one extension: letter case aside, with or without '.'
ExtensionClasses ==
    {{".csv", ".CSV", ".Csv", "csv", "CSV"}, {".parquet", ".Parquet", "parquet"},
     {".txt", ".TXT"}, {".pdf"}}

SameExtension(a, b) == \E c \in ExtensionClasses : a \in c /\ b \in c

\* the create call that has just returned or raised
Created == op.name = "factory" /\ op.call.fn = "create"

\* what a create call names the format by: the explicit type when one is
\* given, the suffix of the path otherwise
NamedBy(call) == IF call.arg # NoType THEN call.arg ELSE call.path.suffix

\* C18: create selects the reader by the explicit file_type when one is
\* given, whatever the path's extension, and by the path's extension
\* otherwise, letter case aside and with '.' supplied: the class constructed
\* is the one registered under the lower-case dotted spelling.
C18_ExplicitTypeOverridesSuffix ==
    Created =>
        /\ \A k \in DOMAIN registry :
              SameExtension(NamedBy(op.call), k) => op.ret.selected = registry[k]
        /\ op.ret.raises = "none" => op.ret.class = op.ret.selected
        /\ op.call.arg \in {"CSV", "csv", ".Csv"} => op.ret.selected = registry[".csv"]

\* create('data.txt', 'CSV') gives the reader registered for '.csv'
C18_Witness ==
    /\ Created
    /\ op.call.path.suffix = ".txt"
    /\ op.call.arg = "CSV"
    /\ op.ret.raises = "none"
    /\ op.ret.class = registry[".csv"]
    /\ registry[".csv"] # registry[".txt"]

\* C19: create fails with the unsupported-format error exactly when the
\* normalized extension is no key of the registry; the message then lists
\* every extension registered at that moment, no reader is constructed, and
\* the registry stays as it was.
C19_UnsupportedListsRegistry ==
    /\ [](Created =>
            LET known == \E k \in DOMAIN registry : SameExtension(NamedBy(op.call), k)
            IN  /\ op.ret.raises = "ValueError" <=> ~known
                /\ op.ret.raises = "ValueError" =>
                      /\ op.ret.supported = DOMAIN registry
                      /\ op.ret.selected = "none"
                      /\ op.ret.class = "none")
    /\ [][(op'.name = "factory" /\ op'.call.fn = "create") => registry' = registry]_vars

\* with '.parquet' registered, create('data.pdf') fails and the message
\* lists '.parquet' among the extensions
C19_Witness ==
    /\ Created
    /\ op.call.path.suffix = ".pdf"
    /\ op.call.arg = NoType
    /\ op.ret.raises = "ValueError"
    /\ ".parquet" \in op.ret.supported
    /\ ".csv" \in op.ret.supported

\* the register calls so far that returned and named the extension `name`
\* in some spelling
RegisteredAs(name) == {i \in DOMAIN op.log : SameExtension(op.log[i].ext, name)}

\* the class given by the latest of them
LatestVariant(name) ==
    op.log[CHOOSE i \in RegisteredAs(name) : \A j \in RegisteredAs(name) : j <= i].cls

RootIsList(f) == f.events # <<>> /\ f.events[1].event = "start_array"

RootIsMap(f) == f.events # <<>> /\ f.events[1].event = "start_map"

\* the key a leaf path ends in
LeafKey(path) ==
    CASE path = "item.age" -> "age"
      [] path = "item.n" -> "n"
      [] path = "item.late" -> "late"
      [] OTHER -> path

IsLeaf(e) == e.event \in {"string", "number", "boolean", "null"}

\* the records of a document whose root is a list of flat records
DocRecords(f) ==
    LET starts == SelectSeq([i \in DOMAIN f.events |-> i],
                            LAMBDA i : f.events[i].event = "start_map"
                                       /\ f.events[i].prefix = "item")
        close(i) == CHOOSE j \in DOMAIN f.events :
                        /\ j > i
                        /\ f.events[j].event = "end_map"
                        /\ \A k \in DOMAIN f.events :
                              (k > i /\ f.events[k].event = "end_map") => j <= k
        leaves(i) == {k \in DOMAIN f.events : i < k /\ k < close(i) /\ IsLeaf(f.events[k])}
    IN  [r \in DOMAIN starts |->
            [key \in {LeafKey(f.events[k].prefix) : k \in leaves(starts[r])} |->
                LET k == CHOOSE k \in leaves(starts[r]) : LeafKey(f.events[k].prefix) = key
                IN  IF f.events[k].value = "Decimal" THEN "float" ELSE f.events[k].value]]

\* C21 as stated: for a document whose root is a list of records the payload
\* is the first 5 elements and the TypeMap is what the line-delimited rule
\* gives on the full list, keyed by field name; for a root that is a map the
\* TypeMap has one entry per top-level key, typed from that key's value.
C21_ListAsRecordsMapPerKey ==
    (data_sample.kind = "paths" /\ LowerSuffix(file.suffix) = ".json") =>
        /\ RootIsList(file) =>
              /\ data_types \in get_data_types_from_records(DocRecords(file))
              /\ data_sample.value =
                    SubSeq(DocRecords(file), 1, Min(5, Len(DocRecords(file))))
        /\ RootIsMap(file) =>
              LET top == {i \in DOMAIN file.events : IsLeaf(file.events[i])}
              IN  /\ DOMAIN data_types = {file.events[i].prefix : i \in top}
                  /\ \A i \in top :
                        data_types[file.events[i].prefix] =
                            infer_data_type(file.events[i].value)

\* C21 amended: whatever the root, the payload maps every field path that
\* holds a string, number or boolean to its first min(5, k) such values in
\* document order, and the TypeMap has one entry per such path, keyed by the
\* path and typed from the first of the sampled values.
C21_PathsTypedFromFirstValue ==
    (data_sample.kind = "paths" /\ LowerSuffix(file.suffix) = ".json") =>
        LET at(p) == SelectSeq(file.events,
                               LAMBDA e : e.prefix = p
                                          /\ e.event \in {"string", "number", "boolean"})
            paths == {file.events[i].prefix :
                        i \in {j \in DOMAIN file.events :
                                 file.events[j].event \in {"string", "number", "boolean"}}}
        IN  /\ DOMAIN data_sample.value = paths
            /\ DOMAIN data_types = paths
            /\ \A p \in paths :
                  /\ Len(data_sample.value[p]) = Min(5, Len(at(p)))
                  /\ \A i \in DOMAIN data_sample.value[p] :
                        data_sample.value[p][i] = at(p)[i].value
                  /\ data_types[p] = infer_data_type(at(p)[1].value)

\* the long list: item.n is a number four times and then a string six
\* times; five values are sampled and the type is int, where the majority of
\* the records says str; item.late occurs only in the eleventh element and
\* is sampled and typed
C21_Witness ==
    /\ file = JsonLong
    /\ data_sample.kind = "paths"
    /\ Len(DocRecords(file)) > 10
    /\ data_sample.value["item.n"] = <<"int", "int", "int", "int", "str">>
    /\ data_sample.value["item.late"] = <<"bool">>
    /\ data_types = [p \in {"item.n", "item.late"} |->
                        IF p = "item.n" THEN "int" ELSE "bool"]
    /\ get_data_types_from_records(DocRecords(file)) = {[n |-> "str", late |-> "null"]}

\* the invocation has ended
Ended == pc \in {"returned", "raised"}

\* the profile holds filename, file_path, file {name, description}, columns
IsProfile(r) ==
    /\ DOMAIN r = {"filename", "file_path", "file", "columns"}
    /\ DOMAIN r.file = {"name", "description"}
    /\ r # NoResult

\* the extensions _prepare_data_sample has a branch of its own for
DedicatedFormats == {".csv", ".xlsx", ".xls", ".jsonl", ".json", ".txt", ".text"}

\* the conditions the statement calls fatal, apart from the parse failure
FatalApartFromParsing ==
    \/ ~file.exists
    \/ /\ LowerSuffix(file.suffix) \notin {".txt", ".text"}
       /\ LowerSuffix(file.suffix) \notin DOMAIN registry
    \/ successes >= 1 /\ NothingToRecover(response)
    \/ curErr # NoErr /\ curErr.call = calls /\ successes = 0 /\ ~is_rate_limit(curErr.msg)

\* C22 as stated: every invocation ends with a complete profile or with an
\* error; a missing file, an unsupported extension, a parse failure, an
\* extraction failure and a non-retryable service error all end it with an
\* error.
C22_FatalAlwaysRaised ==
    Ended =>
        /\ pc = "returned" => IsProfile(result) /\ raised = NoRaise
        /\ pc = "raised" => result = NoResult /\ raised # NoRaise
        /\ (FatalApartFromParsing \/ ~file.ok) => pc = "raised"

\* C22 amended: a parse failure ends the invocation with an error for the
\* formats with a sampling branch of their own; for any other registered
\* format it is absorbed, the sample being the first five raw lines.
C22_FatalRaisedButFallback ==
    Ended =>
        /\ pc = "returned" => IsProfile(result) /\ raised = NoRaise
        /\ pc = "raised" => result = NoResult /\ raised # NoRaise
        /\ FatalApartFromParsing => pc = "raised"
        /\ (~file.ok /\ LowerSuffix(file.suffix) \in DedicatedFormats) => pc = "raised"
        /\ (~file.ok /\ file.exists /\ pc = "returned") =>
              /\ LowerSuffix(file.suffix) \in DOMAIN registry \ DedicatedFormats
              /\ data_sample.kind \in {"lines", "raw_lines"}
              /\ successes = 1

\* a markup file that does not parse: the profile is returned, built on the
\* raw lines of the file
C22_Witness ==
    /\ file = XmlMalformed
    /\ ~file.ok
    /\ pc = "returned"
    /\ data_sample.kind = "raw_lines"
    /\ IsProfile(result)

\* the get_top_n call on a document-object file that has returned
JsonTopNReturned ==
    /\ op.name = "get_top_n"
    /\ op.done
    /\ op.ret.raises = "none"
    /\ op.ret.kind = "paths"

\* C23: JSONProcessor.get_top_n(n) with n >= 1 returns, for every field path
\* at which a string, number or boolean token occurs, exactly the first
\* min(n, k) such values in document order, k being their count at the path;
\* no list is empty or longer than n, and no structural or null token is
\* stored.
C23_FirstValuesPerPath ==
    (JsonTopNReturned /\ op.n >= 1) =>
        LET u == op.ret.units
            tokens(p) == {i \in DOMAIN file.events :
                            /\ file.events[i].prefix = p
                            /\ file.events[i].event \in {"string", "number", "boolean"}}
            \* the index of the j-th such token at p
            nth(p, j) == CHOOSE i \in tokens(p) :
                            Cardinality({k \in tokens(p) : k <= i}) = j
            k(p) == Cardinality(tokens(p))
        IN  /\ DOMAIN u = {file.events[i].prefix : i \in
                             {j \in DOMAIN file.events :
                                file.events[j].event \in {"string", "number", "boolean"}}}
            /\ \A p \in DOMAIN u :
                  /\ Len(u[p]) = Min(op.n, k(p))
                  /\ Len(u[p]) >= 1
                  /\ Len(u[p]) <= op.n
                  /\ \A j \in DOMAIN u[p] :
                        /\ u[p][j] = file.events[nth(p, j)].value
                        /\ u[p][j] # "NoneType"

\* get_top_n(3) on the long list: three of the ten values of item.n, the one
\* value of item.late
C23_Witness ==
    /\ JsonTopNReturned
    /\ file = JsonLong
    /\ op.n = 3
    /\ op.ret.units["item.n"] = <<"int", "int", "int">>
    /\ op.ret.units["item.late"] = <<"bool">>

RECURSIVE Concat(_)
\* the chunks laid end to end
Concat(chunks) ==
    IF chunks = <<>> THEN <<>> ELSE Head(chunks) \o Concat(Tail(chunks))

\* the units of a file read line by line: the records on the non-blank lines
\* of a line-delimited file, the lines of a text file
LineUnits(f) ==
    IF LowerSuffix(f.suffix) = ".jsonl"
    THEN LET kept == SelectSeq(f.lines, LAMBDA l : ~l.blank)
         IN  [i \in DOMAIN kept |-> kept[i].rec]
    ELSE [i \in 1..f.nlines |-> i]

\* C24: for the line-delimited and text-lines readers read_chunks(c) with
\* c >= 1 yields finitely many chunks whose concatenation is the file's full
\* sequence of units in order; every chunk is non-empty and holds at most c
\* units, every chunk but the last exactly c.
C24_ChunksPartitionUnits ==
    (op.name = "read_chunks" /\ op.done /\ op.ret.raises = "none" /\ op.n >= 1) =>
        LET chunks == op.ret.units
        IN  /\ Concat(chunks) = LineUnits(file)
            /\ \A i \in DOMAIN chunks :
                  /\ chunks[i] # <<>>
                  /\ Len(chunks[i]) <= op.n
                  /\ i < Len(chunks) => Len(chunks[i]) = op.n

\* a text file of more than 6 lines read with c = 3: full chunks and a
\* shorter last one
C24_Witness ==
    /\ op.name = "read_chunks"
    /\ op.done
    /\ op.n = 3
    /\ file = TxtFile
    /\ Len(op.ret.units) >= 3
    /\ Len(op.ret.units[1]) = 3
    /\ Len(op.ret.units[Len(op.ret.units)]) < 3

\* C25: a backoff sleep happens only between two attempts: it starts when a
\* call has failed with a retryable error on the first or second attempt,
\* it ends at the head of the loop, where one more call is issued; no sleep
\* follows the third attempt or a response, and one invocation sleeps at most
\* twice.
C25_SleepOnlyBetweenAttempts ==
    /\ [][/\ (nsleeps' # nsleeps =>
                /\ nsleeps' = nsleeps + 1
                /\ pc = "in_call" /\ pc' = "sleeping"
                /\ curErr'.call = calls
                /\ is_rate_limit(curErr'.msg)
                /\ calls < 3
                /\ successes = 0 /\ successes' = 0)
          /\ (pc = "sleeping" =>
                /\ pc' = "loop"
                /\ calls' = calls
                /\ nsleeps' = nsleeps)
          /\ (pc = "loop" => calls' = calls + 1)]_vars
    /\ [](nsleeps <= 2)
    /\ [](pc = "sleeping" => calls = nsleeps)
    /\ []((pc \in {"returned", "raised"} /\ calls >= 1) => nsleeps = calls - 1)

\* the second call is under way, after one failed call and one sleep
C25_Witness ==
    /\ pc = "in_call"
    /\ calls = 2
    /\ nsleeps = 1
    /\ is_rate_limit(curErr.msg)
    /\ curErr.call = 1
    /\ wait_time >= 1000

\* C26 as stated: one invocation of generate_description, with or without an
\* output path, makes at most one successful generation call, and the
\* profile it returns is the profile it wrote to the output path.
C26_OneCallSameProfile ==
    (op.name = "generate_description" /\ op.phase = "done") =>
        /\ op.ok_calls <= 1
        /\ (op.output_path /\ op.raises = "none") => op.returned = op.written

\* the is_supported call that has just returned was given a file path: a
\* Path or a string with a separator, or a bare file name
SupportedAsked ==
    /\ op.name = "factory"
    /\ op.call.fn = "is_supported"
    /\ (op.call.as_path \/ op.call.path \in BareNamePaths)

\* C27 as stated: for every file path p, given as a Path, as a string with a
\* directory separator or as a bare file name, is_supported(p) is true
\* exactly when create(p) does not fail with the unsupported-format error.
C27_SupportedIffCreateAccepts ==
    SupportedAsked =>
        (op.ret.ok <=> create(registry, op.call.path, NoType).raises # "ValueError")

\* the modelled strings that are lower-case and start with '.'
LowerCaseDotted ==
    {".csv", ".json", ".jsonl", ".xml", ".xlsx", ".xls", ".txt", ".text",
     ".parquet", ".pdf", "."}

\* the BaseProcessor subclasses of the model
ReaderClasses ==
    {"CSVProcessor", "JSONProcessor", "JSONLProcessor", "XMLProcessor",
     "XLSXProcessor", "TXTProcessor", CustomClass}

\* C28: after any sequence of register calls every key of the registry is
\* lower-case and starts with '.', and every value is a BaseProcessor
\* subclass; a register call with a class that is no BaseProcessor subclass
\* raises and leaves the registry exactly as it was.
C28_RegistryWellFormed ==
    /\ [](\A k \in DOMAIN registry :
            k \in LowerCaseDotted /\ registry[k] \in ReaderClasses)
    /\ [][(op'.name = "factory" /\ op' # op /\ op'.call.fn = "register"
           /\ op'.call.cls \notin ReaderClasses) =>
             /\ op'.ret.raises = "TypeError"
             /\ registry' = registry]_vars
    /\ [][(op'.name = "factory" /\ op' # op /\ op'.call.fn = "register"
           /\ op'.call.cls \in ReaderClasses) =>
             /\ op'.ret.raises = "none"
             /\ \E k \in LowerCaseDotted :
                   /\ SameExtension(k, op'.call.arg)
                   /\ registry'[k] = op'.call.cls]_vars

\* register('.Parquet', ParquetProcessor) and then a register call with a
\* plain class: the first is stored under '.parquet', the second raised and
\* stored nothing
C28_Witness ==
    /\ op.name = "factory"
    /\ op.log = <<[ext |-> ".Parquet", cls |-> CustomClass]>>
    /\ op.call.fn = "register"
    /\ op.call.cls = PlainClass
    /\ op.ret.raises = "TypeError"
    /\ DOMAIN registry = DOMAIN Processors \cup {".parquet"}
    /\ registry[".parquet"] = CustomClass
    /\ registry[".csv"] = "CSVProcessor"

\* C29: for an existing file with extension .txt or .text, in any letter
\* case, generate issues no generation call and constructs no reader, and
\* returns a profile with an empty columns list, the file's stem as file
\* name and the empty string as description.
C29_TextFileShortcut ==
    /\ []((file.exists /\ file.suffix \in {".txt", ".TXT", ".text"}) =>
            /\ calls = 0
            /\ nsleeps = 0
            /\ processor = "none"
            /\ data_sample = Unset
            /\ pc \in {"entry", "returned"}
            /\ pc = "returned" =>
                  /\ result.columns = <<>>
                  /\ result.file = [name |-> file.stem, description |-> ""]
                  /\ result.filename = <<file.stem, file.suffix>>
                  /\ raised = NoRaise)
    /\ [][(pc = "entry" /\ file.exists /\ file.suffix \in {".txt", ".TXT", ".text"}) =>
             pc' = "returned"]_vars

\* data.TXT: the profile is returned without a reader and without a call
C29_Witness ==
    /\ file = TxtUpper
    /\ file.exists
    /\ pc = "returned"
    /\ calls = 0
    /\ processor = "none"
    /\ result.file = [name |-> "data", description |-> ""]
    /\ result.columns = <<>>

\* C30 as stated: in DescriptionService.run, after each file is handled the
\* success count plus the failed count is the number of files handled so
\* far and the number of consolidated results is the success count; a
\* failure on one file never stops the handling of the files after it, and
\* at the end success + failed equals total.
C30_TalliesAndContinuation ==
    /\ []((op.name = "run" /\ op.phase \in {"loop", "saved"}) =>
            /\ op.stats.success + op.stats.failed = op.handled
            /\ Len(op.consolidated_results) = op.stats.success)
    /\ []((op.name = "run" /\ op.phase = "saved") =>
            /\ op.saved.success + op.saved.failed = op.saved.total
            /\ op.saved.total = Len(op.data_files))
    /\ [][(op.name = "run" /\ op.phase = "loop" /\ op.handled < Len(op.data_files)) =>
             /\ op'.phase = "loop"
             /\ op'.handled = op.handled + 1]_vars

====
